---------------------------- MODULE Spec2Model ----------------------------
(***************************************************************************)
(* A model of the reliability and framing engine of cubyz-node-client:     *)
(* the wire codec (binary.ts), SendChannel (sendChannel.ts),               *)
(* ReceiveChannel (receiveChannel.ts) and the connection controller        *)
(* CubyzConnection (connection.ts).                                        *)
(*                                                                         *)
(* Buffers are sequences of bytes (0..255).  A JavaScript Map is a         *)
(* function when only has/get/set/delete are used on it (acked, pending)   *)
(* and a sequence of entries when its iteration order is used (inFlight).  *)
(* An optional value (T | null) is a sequence of length 0 or 1.            *)
(* Sequence numbers are the 32-bit signed integers of the program.         *)
(***************************************************************************)
EXTENDS Integers, Sequences, FiniteSets, TLC

None == <<>>
Some(x) == <<x>>

-----------------------------------------------------------------------------
(* constants.ts *)

CHANNEL_LOSSY == 0
CHANNEL_FAST == 1
CHANNEL_SLOW == 2
CHANNEL_CONFIRMATION == 3
CHANNEL_INIT == 4
CHANNEL_KEEP_ALIVE == 5
CHANNEL_DISCONNECT == 6

SequencedChannels == <<CHANNEL_LOSSY, CHANNEL_FAST, CHANNEL_SLOW>>

PROTOCOL_HANDSHAKE == 1
PROTOCOL_PLAYER_STATE == 4
PROTOCOL_CHAT == 10

HANDSHAKE_STATE_USER_DATA == 1
HANDSHAKE_STATE_SERVER_DATA == 3

RESEND_TIMEOUT_MS == 500
INIT_RESEND_INTERVAL_MS == 100
CONFIRMATION_BATCH_SIZE == 16
KEEP_ALIVE_INTERVAL_MS == 2000
KEEP_ALIVE_TIMEOUT_MS == KEEP_ALIVE_INTERVAL_MS * 4
MTU == 548

-----------------------------------------------------------------------------
(* binary.ts *)

Int32Max == 2147483647
Int32Min == -Int32Max - 1

\* (value << 0) | 0: every number of the model is a 32-bit signed integer
\* already, the wrap itself is made where a sum or a shift is formed (addSeq,
\* seqLessThan, shl7).
toInt32(value) == value

\* addSeq stopping at the ends of the signed range instead of wrapping.
addSeqSaturating(base, delta) ==
  IF delta >= 0
    THEN IF base > Int32Max - delta THEN Int32Max ELSE base + delta
    ELSE IF base < Int32Min - delta THEN Int32Min ELSE base + delta

\* toInt32((base + delta) | 0), the sum formed without leaving 32 bits.
addSeq(base, delta) ==
  IF delta >= 0
    THEN IF base > Int32Max - delta
           THEN toInt32(Int32Min + ((delta - (Int32Max - base)) - 1))
           ELSE toInt32(base + delta)
    ELSE IF base < Int32Min - delta
           THEN toInt32(Int32Max - ((Int32Min - delta) - base - 1))
           ELSE toInt32(base + delta)

\* seqLessThan comparing the two numbers as they stand.
seqLessThanPlain(a, b) == a < b

\* toInt32(a - b) < 0, the difference formed without leaving 32 bits.
seqLessThan(a, b) ==
  IF (a >= 0) = (b >= 0)
    THEN toInt32(a - b) < 0
    ELSE IF a >= 0
      THEN a >= (b + Int32Max) + 1      \* a - b >= 2^31 wraps to a negative
      ELSE a >= (b - Int32Max) - 1      \* a - b >= -2^31 stays negative

RECURSIVE encodeVarIntLoop(_)
encodeVarIntLoop(remaining) ==
  LET byte == remaining % 128
      rest == remaining \div 128
  IN  IF rest # 0
        THEN <<byte + 128>> \o encodeVarIntLoop(rest)
        ELSE <<byte>>

\* Low seven bits first.  A negative value raises RangeError: no buffer is
\* returned, which the empty sequence stands for (SendChannel passes lengths).
encodeVarInt(value) ==
  IF value < 0 THEN <<>> ELSE encodeVarIntLoop(value)

\* value | ((byte & 0x7f) << shift) on 32-bit signed integers, for a value
\* below 2^shift: under shift 28 nothing is lost; at shift 28 bits 0..2 of the
\* seven land in bits 28..30, bit 3 becomes the sign and bits 4..6 fall off.
orShl(value, low7, shift) ==
  IF shift < 28 THEN value + low7 * 2 ^ shift
  ELSE LET v == value + (low7 % 8) * 2 ^ 28
       IN  IF (low7 \div 8) % 2 = 1 THEN (v - Int32Max) - 1 ELSE v

\* decodeVarInt giving up one byte early.
RECURSIVE decodeVarIntLoopEarly(_, _, _, _, _)
decodeVarIntLoopEarly(buffer, offset, value, consumed, shift) ==
  IF offset + consumed >= Len(buffer)
    THEN [kind |-> "throw", error |-> "reached end of buffer"]
  ELSE
    LET byte == buffer[offset + consumed + 1]
        v    == orShl(value, byte % 128, shift)
    IN  IF byte < 128
          THEN [kind |-> "value", value |-> v, consumed |-> consumed + 1]
        ELSE IF shift + 7 >= 28
          THEN [kind |-> "throw", error |-> "value too large"]
        ELSE decodeVarIntLoopEarly(buffer, offset, v, consumed + 1, shift + 7)

\* decodeVarInt of binary.ts, low seven bits first: the value and the bytes
\* consumed, or the error thrown.  value >>> 0 is held as the 32-bit pattern:
\* a negative value stands for the value plus 2^32.
RECURSIVE decodeVarIntLoop(_, _, _, _, _)
decodeVarIntLoop(buffer, offset, value, consumed, shift) ==
  IF offset + consumed >= Len(buffer)
    THEN [kind |-> "throw", error |-> "reached end of buffer"]
  ELSE
    LET byte == buffer[offset + consumed + 1]
        v    == orShl(value, byte % 128, shift)
    IN  IF byte < 128
          THEN [kind |-> "value", value |-> v, consumed |-> consumed + 1]
        ELSE IF shift + 7 >= 35
          THEN [kind |-> "throw", error |-> "value too large"]
        ELSE decodeVarIntLoop(buffer, offset, v, consumed + 1, shift + 7)

decodeVarInt(buffer, offset) == decodeVarIntLoop(buffer, offset, 0, 0, 0)

-----------------------------------------------------------------------------
(* sendChannel.ts *)

RECURSIVE concatBuffers(_)
concatBuffers(bufs) ==
  IF bufs = <<>> THEN <<>> ELSE Head(bufs) \o concatBuffers(Tail(bufs))

\* new SendChannel(channelId, initialSequence)
SendChannel(channelId, initialSequence) ==
  [ channelId       |-> channelId,
    initialSequence |-> toInt32(initialSequence),
    nextIndex       |-> toInt32(initialSequence),
    fullyConfirmed  |-> toInt32(initialSequence),
    pendingMessages |-> <<>>,
    inFlight        |-> <<>>,
    acked           |-> <<>> ]

\* Map.prototype.has / get / set / delete on a map held as a function.
MapHas(m, k) == k \in DOMAIN m
MapSet(m, k, v) == [x \in (DOMAIN m) \cup {k} |-> IF x = k THEN v ELSE m[x]]
MapDelete(m, k) == [x \in (DOMAIN m) \ {k} |-> m[x]]

\* The same on a map held in insertion order, as a sequence of entries
\* keyed by their start.
EntryIndex(entries, start) ==
  IF \E i \in 1..Len(entries) : entries[i].start = start
    THEN CHOOSE i \in 1..Len(entries) : entries[i].start = start
    ELSE 0
EntrySet(entries, entry) ==
  LET i == EntryIndex(entries, entry.start)
  IN  IF i = 0 THEN Append(entries, entry)
               ELSE [entries EXCEPT ![i] = entry]
EntryDelete(entries, start) ==
  LET i == EntryIndex(entries, start)
  IN  IF i = 0 THEN entries
      ELSE SubSeq(entries, 1, i - 1) \o SubSeq(entries, i + 1, Len(entries))

queue(ch, protocolId, payload) ==
  LET header  == <<protocolId % 256>>
      size    == encodeVarInt(Len(payload))
      message == concatBuffers(<<header, size, payload>>)
  IN  [ch EXCEPT !.pendingMessages = Append(@, message)]

hasWork(ch) == Len(ch.pendingMessages) > 0 \/ Len(ch.inFlight) > 0

\* The first in-flight entry, in insertion order, that is due at now; 0 if none.
\* FirstDue choosing the entry inserted last among those due.
LastDue(ch, now) ==
  LET due == {i \in 1..Len(ch.inFlight) :
                now - ch.inFlight[i].timestamp >= RESEND_TIMEOUT_MS}
  IN  IF due = {} THEN 0 ELSE CHOOSE i \in due : \A j \in due : i >= j

\* FirstDue with a timeout that doubles with every retry.
FirstDueBackoff(ch, now) ==
  LET due == {i \in 1..Len(ch.inFlight) :
                now - ch.inFlight[i].timestamp
                  >= RESEND_TIMEOUT_MS * 2 ^ ch.inFlight[i].retries}
  IN  IF due = {} THEN 0 ELSE CHOOSE i \in due : \A j \in due : i <= j

FirstDue(ch, now) ==
  LET due == {i \in 1..Len(ch.inFlight) :
                now - ch.inFlight[i].timestamp >= RESEND_TIMEOUT_MS}
  IN  IF due = {} THEN 0 ELSE CHOOSE i \in due : \A j \in due : i <= j

\* getPacket(now): the channel afterwards, the packet returned (or none) and
\* whether the call threw "Message exceeds MTU allowance".
\* getPacket counting the bytes of a frame it refuses.
getPacketCountsRefused(ch, now) ==
  LET i == FirstDue(ch, now) IN
  IF i # 0
    THEN [ channel |-> [ch EXCEPT !.inFlight[i].timestamp = now,
                                  !.inFlight[i].retries = @ + 1],
           packet  |-> Some([ start   |-> ch.inFlight[i].start,
                              payload |-> ch.inFlight[i].payload,
                              resend  |-> TRUE ]),
           threw   |-> FALSE ]
  ELSE IF Len(ch.pendingMessages) = 0
    THEN [channel |-> ch, packet |-> None, threw |-> FALSE]
  ELSE
    LET message == Head(ch.pendingMessages)
        shifted == [ch EXCEPT !.pendingMessages = Tail(@)]
    IN  IF Len(message) > MTU - 5
          THEN [channel |-> [shifted EXCEPT
                               !.nextIndex = addSeq(@, Len(message))],
                packet |-> None, threw |-> TRUE]
          ELSE
            LET start == ch.nextIndex
                entry == [ start     |-> start,
                           payload   |-> message,
                           timestamp |-> now,
                           len       |-> Len(message),
                           retries   |-> 0 ]
            IN  [ channel |-> [shifted EXCEPT
                                 !.inFlight  = EntrySet(@, entry),
                                 !.nextIndex = addSeq(ch.nextIndex, entry.len)],
                  packet  |-> Some([ start   |-> start,
                                     payload |-> message,
                                     resend  |-> FALSE ]),
                  threw   |-> FALSE ]

\* getPacket leaving the frame it refuses at the head of the queue.
getPacketKeepsRefused(ch, now) ==
  LET i == FirstDue(ch, now) IN
  IF i # 0
    THEN [ channel |-> [ch EXCEPT !.inFlight[i].timestamp = now,
                                  !.inFlight[i].retries = @ + 1],
           packet  |-> Some([ start   |-> ch.inFlight[i].start,
                              payload |-> ch.inFlight[i].payload,
                              resend  |-> TRUE ]),
           threw   |-> FALSE ]
  ELSE IF Len(ch.pendingMessages) = 0
    THEN [channel |-> ch, packet |-> None, threw |-> FALSE]
  ELSE
    LET message == Head(ch.pendingMessages)
        shifted == [ch EXCEPT !.pendingMessages = Tail(@)]
    IN  IF Len(message) > MTU - 5
          THEN [channel |-> ch, packet |-> None, threw |-> TRUE]
          ELSE
            LET start == ch.nextIndex
                entry == [ start     |-> start,
                           payload   |-> message,
                           timestamp |-> now,
                           len       |-> Len(message),
                           retries   |-> 0 ]
            IN  [ channel |-> [shifted EXCEPT
                                 !.inFlight  = EntrySet(@, entry),
                                 !.nextIndex = addSeq(ch.nextIndex, entry.len)],
                  packet  |-> Some([ start   |-> start,
                                     payload |-> message,
                                     resend  |-> FALSE ]),
                  threw   |-> FALSE ]

\* getPacket refusing a frame that fills the allowance exactly.
getPacketRefusesFullFrame(ch, now) ==
  LET i == FirstDue(ch, now) IN
  IF i # 0
    THEN [ channel |-> [ch EXCEPT !.inFlight[i].timestamp = now,
                                  !.inFlight[i].retries = @ + 1],
           packet  |-> Some([ start   |-> ch.inFlight[i].start,
                              payload |-> ch.inFlight[i].payload,
                              resend  |-> TRUE ]),
           threw   |-> FALSE ]
  ELSE IF Len(ch.pendingMessages) = 0
    THEN [channel |-> ch, packet |-> None, threw |-> FALSE]
  ELSE
    LET message == Head(ch.pendingMessages)
        shifted == [ch EXCEPT !.pendingMessages = Tail(@)]
    IN  IF Len(message) >= MTU - 5
          THEN [channel |-> shifted, packet |-> None, threw |-> TRUE]
          ELSE
            LET start == ch.nextIndex
                entry == [ start     |-> start,
                           payload   |-> message,
                           timestamp |-> now,
                           len       |-> Len(message),
                           retries   |-> 0 ]
            IN  [ channel |-> [shifted EXCEPT
                                 !.inFlight  = EntrySet(@, entry),
                                 !.nextIndex = addSeq(ch.nextIndex, entry.len)],
                  packet  |-> Some([ start   |-> start,
                                     payload |-> message,
                                     resend  |-> FALSE ]),
                  threw   |-> FALSE ]

getPacket(ch, now) ==
  LET i == FirstDue(ch, now) IN
  IF i # 0
    THEN [ channel |-> [ch EXCEPT !.inFlight[i].timestamp = now,
                                  !.inFlight[i].retries = @ + 1],
           packet  |-> Some([ start   |-> ch.inFlight[i].start,
                              payload |-> ch.inFlight[i].payload,
                              resend  |-> TRUE ]),
           threw   |-> FALSE ]
  ELSE IF Len(ch.pendingMessages) = 0
    THEN [channel |-> ch, packet |-> None, threw |-> FALSE]
  ELSE
    LET message == Head(ch.pendingMessages)
        shifted == [ch EXCEPT !.pendingMessages = Tail(@)]
    IN  IF Len(message) > MTU - 5
          THEN [channel |-> shifted, packet |-> None, threw |-> TRUE]
          ELSE
            LET start == ch.nextIndex
                entry == [ start     |-> start,
                           payload   |-> message,
                           timestamp |-> now,
                           len       |-> Len(message),
                           retries   |-> 0 ]
            IN  [ channel |-> [shifted EXCEPT
                                 !.inFlight  = EntrySet(@, entry),
                                 !.nextIndex = addSeq(ch.nextIndex, entry.len)],
                  packet  |-> Some([ start   |-> start,
                                     payload |-> message,
                                     resend  |-> FALSE ]),
                  threw   |-> FALSE ]

\* advanceAcks moving the frontier over one acknowledged frame at most.
advanceAcksOnce(ch) ==
  IF ~MapHas(ch.acked, ch.fullyConfirmed)
    THEN ch
    ELSE
      LET len     == ch.acked[ch.fullyConfirmed]
          deleted == [ch EXCEPT !.acked = MapDelete(@, ch.fullyConfirmed)]
      IN  IF len <= 0
            THEN deleted
            ELSE [deleted EXCEPT
                    !.fullyConfirmed = addSeq(ch.fullyConfirmed, len)]

RECURSIVE advanceAcks(_)
advanceAcks(ch) ==
  IF ~MapHas(ch.acked, ch.fullyConfirmed)
    THEN ch
    ELSE
      LET len     == ch.acked[ch.fullyConfirmed]
          deleted == [ch EXCEPT !.acked = MapDelete(@, ch.fullyConfirmed)]
      IN  IF len <= 0
            THEN deleted
            ELSE advanceAcks([deleted EXCEPT
                                !.fullyConfirmed = addSeq(ch.fullyConfirmed, len)])

\* A handleAck that moves the frontier to the end of whatever packet was
\* acknowledged, without the acked map.
handleAckMovesFrontier(ch, start) ==
  LET i == EntryIndex(ch.inFlight, start) IN
  IF i # 0
    THEN [ch EXCEPT !.inFlight = EntryDelete(@, start),
                    !.fullyConfirmed = addSeq(start, ch.inFlight[i].len)]
    ELSE ch

\* A handleAck that records the acknowledgment and leaves the entry in flight.
handleAckKeepsInFlight(ch, start) ==
  LET i == EntryIndex(ch.inFlight, start) IN
  IF i # 0
    THEN advanceAcks([ch EXCEPT !.acked = MapSet(@, start, ch.inFlight[i].len)])
    ELSE IF ~MapHas(ch.acked, start)
      THEN advanceAcks([ch EXCEPT !.acked = MapSet(@, start, 0)])
      ELSE advanceAcks(ch)

\* A handleAck that ignores a start acked already holds.
handleAckIgnoresKnown(ch, start) ==
  LET i == EntryIndex(ch.inFlight, start) IN
  IF MapHas(ch.acked, start)
    THEN advanceAcks(ch)
  ELSE IF i # 0
    THEN advanceAcks([ch EXCEPT
                        !.inFlight = EntryDelete(@, start),
                        !.acked    = MapSet(@, start, ch.inFlight[i].len)])
    ELSE advanceAcks([ch EXCEPT !.acked = MapSet(@, start, 0)])

handleAck(ch, start) ==
  LET i == EntryIndex(ch.inFlight, start) IN
  IF i # 0
    THEN advanceAcks([ch EXCEPT
                        !.inFlight = EntryDelete(@, start),
                        !.acked    = MapSet(@, start, ch.inFlight[i].len)])
    ELSE IF ~MapHas(ch.acked, start)
      THEN advanceAcks([ch EXCEPT !.acked = MapSet(@, start, 0)])
      ELSE advanceAcks(ch)

-----------------------------------------------------------------------------
(* receiveChannel.ts *)

\* new ReceiveChannel(channelId, initialSequence)
ReceiveChannel(channelId, initialSequence) ==
  [ channelId      |-> channelId,
    expected       |-> initialSequence,
    pending        |-> <<>>,
    chunks         |-> <<>>,
    bufferedLength |-> 0,
    partialHeader  |-> None ]

enqueueChunk(rc, chunk) ==
  [rc EXCEPT !.chunks = Append(@, [buffer |-> chunk, offset |-> 0]),
             !.bufferedLength = @ + Len(chunk)]

\* The byte at offset of the unread stream; -1 stands for the RangeError
\* "Peek offset beyond buffered data".
RECURSIVE peekByteFrom(_, _)
peekByteFrom(chunks, remaining) ==
  IF chunks = <<>> THEN -1
  ELSE LET chunk     == Head(chunks)
           available == Len(chunk.buffer) - chunk.offset
       IN  IF remaining < available
             THEN chunk.buffer[chunk.offset + remaining + 1]
             ELSE peekByteFrom(Tail(chunks), remaining - available)

peekByte(rc, offset) == peekByteFrom(rc.chunks, offset)

\* (size << 7) | low7 on 32-bit signed integers: bits 0..24 of size move up,
\* bit 24 becomes the sign.
shl7or(size, low7) ==
  LET s25  == size % 33554432
      lo24 == s25 % 16777216
      hi   == s25 \div 16777216
      v    == lo24 * 128 + low7
  IN  IF hi = 1 THEN (v - Int32Max) - 1 ELSE v

\* peekHeader(): kind "null" (wait for more bytes), "header" or "throw"
\* ("Protocol length varint exceeds expected size").
RECURSIVE peekHeaderLoop(_, _, _, _)
peekHeaderLoop(rc, protocolId, size, bytesRead) ==
  LET byteOffset == 1 + bytesRead
      noHeader   == [kind |-> "null", protocolId |-> 0, size |-> 0,
                     headerLength |-> 0]
  IN
  IF byteOffset >= rc.bufferedLength THEN noHeader
  ELSE
    LET byte  == peekByte(rc, byteOffset)
        size2 == shl7or(size, byte % 128)
        read2 == bytesRead + 1
    IN  IF byte < 128
          THEN [kind |-> "header", protocolId |-> protocolId, size |-> size2,
                headerLength |-> 1 + read2]
        ELSE IF read2 > 5
          THEN [noHeader EXCEPT !.kind = "throw"]
        ELSE IF 1 + read2 > rc.bufferedLength
          THEN noHeader
        ELSE peekHeaderLoop(rc, protocolId, size2, read2)

peekHeader(rc) ==
  IF rc.bufferedLength < 1
    THEN [kind |-> "null", protocolId |-> 0, size |-> 0, headerLength |-> 0]
    ELSE peekHeaderLoop(rc, peekByte(rc, 0), 0, 0)

\* consumeBytes(length): the channel afterwards and the bytes taken.  The
\* callers never ask for more than is buffered (the RangeError branch).
RECURSIVE consumeLoop(_, _, _)
consumeLoop(rc, remaining, segments) ==
  IF remaining <= 0 THEN [channel |-> rc, bytes |-> segments]
  ELSE
    LET chunk     == Head(rc.chunks)
        available == Len(chunk.buffer) - chunk.offset
        take      == IF available < remaining THEN available ELSE remaining
        slice     == SubSeq(chunk.buffer, chunk.offset + 1, chunk.offset + take)
        moved     == [chunk EXCEPT !.offset = @ + take]
        chunks2   == IF moved.offset = Len(moved.buffer)
                       THEN Tail(rc.chunks)
                       ELSE <<moved>> \o Tail(rc.chunks)
    IN  consumeLoop([rc EXCEPT !.chunks = chunks2,
                               !.bufferedLength = @ - take],
                    remaining - take, segments \o slice)

consumeBytes(rc, length) ==
  IF length = 0 THEN [channel |-> rc, bytes |-> <<>>]
  ELSE consumeLoop(rc, length, <<>>)

\* drainMessages(collectedMessages): the channel afterwards, the messages
\* collected, and whether peekHeader threw.
RECURSIVE drainMessages(_, _)
drainMessages(rc, collectedMessages) ==
  LET header == IF rc.partialHeader = None THEN peekHeader(rc)
                ELSE [kind |-> "partial", protocolId |-> 0, size |-> 0,
                      headerLength |-> 0]
  IN
  IF header.kind = "throw"
    THEN [channel |-> rc, messages |-> collectedMessages, threw |-> TRUE]
  ELSE IF header.kind = "null"
    THEN [channel |-> rc, messages |-> collectedMessages, threw |-> FALSE]
  ELSE
    LET withHeader ==
          IF header.kind = "header"
            THEN [consumeBytes(rc, header.headerLength).channel EXCEPT
                    !.partialHeader = Some([protocolId |-> header.protocolId,
                                            size       |-> header.size])]
            ELSE rc
        partial == withHeader.partialHeader[1]
    IN  IF withHeader.bufferedLength < partial.size
          THEN [channel |-> withHeader, messages |-> collectedMessages,
                threw |-> FALSE]
          ELSE
            LET taken == consumeBytes(withHeader, partial.size)
            IN  drainMessages(
                  [taken.channel EXCEPT !.partialHeader = None],
                  Append(collectedMessages,
                         [protocolId |-> partial.protocolId,
                          payload    |-> taken.bytes]))

\* A flush that moves one pending chunk at most.
flushLoopOnce(rc, progressed) ==
  IF ~MapHas(rc.pending, rc.expected)
    THEN [channel |-> rc, progressed |-> progressed]
    ELSE
      LET chunk == rc.pending[rc.expected]
          moved == enqueueChunk([rc EXCEPT !.pending = MapDelete(@, rc.expected)],
                                chunk)
      IN  [channel    |-> [moved EXCEPT !.expected = addSeq(rc.expected, Len(chunk))],
           progressed |-> TRUE]

\* A flush that forgets to advance expected.
flushLoopKeepsExpected(rc, progressed) ==
  IF ~MapHas(rc.pending, rc.expected)
    THEN [channel |-> rc, progressed |-> progressed]
    ELSE [channel    |-> enqueueChunk([rc EXCEPT !.pending = MapDelete(@, rc.expected)],
                                      rc.pending[rc.expected]),
          progressed |-> TRUE]

\* The while loop of flushPending: moves the contiguous pending chunks to
\* chunks; progressed tells whether any chunk moved.
RECURSIVE flushLoop(_, _)
flushLoop(rc, progressed) ==
  IF ~MapHas(rc.pending, rc.expected)
    THEN [channel |-> rc, progressed |-> progressed]
    ELSE
      LET chunk == rc.pending[rc.expected]
          moved == enqueueChunk([rc EXCEPT !.pending = MapDelete(@, rc.expected)],
                                chunk)
      IN  flushLoop([moved EXCEPT !.expected = addSeq(rc.expected, Len(chunk))],
                    TRUE)

flushPending(rc, collectedMessages) ==
  LET flushed == flushLoop(rc, FALSE)
  IN  IF flushed.progressed
        THEN drainMessages(flushed.channel, collectedMessages)
        ELSE [channel |-> flushed.channel, messages |-> collectedMessages,
              threw |-> FALSE]

\* handlePacket keeping no packet that is ahead of expected.
handlePacketDropsAhead(rc, start, payload) ==
  IF start # rc.expected
    THEN [channel |-> rc, accepted |-> TRUE, ackStart |-> start,
          messages |-> <<>>, threw |-> FALSE]
    ELSE
      LET flushed == flushPending([rc EXCEPT !.pending = MapSet(@, start, payload)],
                                  <<>>)
      IN  [channel  |-> flushed.channel,
           accepted |-> ~flushed.threw,
           ackStart |-> start,
           messages |-> IF flushed.threw THEN <<>> ELSE flushed.messages,
           threw    |-> flushed.threw]

\* handlePacket(start, payload): the channel afterwards and the result; when
\* threw is TRUE the call raised and returned no result.
\* handlePacket refusing what it has already seen.
handlePacketRefusesSeen(rc, start, payload) ==
  IF seqLessThan(start, rc.expected) \/ MapHas(rc.pending, start)
    THEN [channel |-> rc, accepted |-> FALSE, ackStart |-> start,
          messages |-> <<>>, threw |-> FALSE]
    ELSE
      LET flushed == flushPending([rc EXCEPT !.pending = MapSet(@, start, payload)],
                                  <<>>)
      IN  [channel  |-> flushed.channel,
           accepted |-> ~flushed.threw,
           ackStart |-> start,
           messages |-> IF flushed.threw THEN <<>> ELSE flushed.messages,
           threw    |-> flushed.threw]

handlePacket(rc, start, payload) ==
  IF seqLessThan(start, rc.expected) \/ MapHas(rc.pending, start)
    THEN [channel |-> rc, accepted |-> TRUE, ackStart |-> start,
          messages |-> <<>>, threw |-> FALSE]
    ELSE
      LET flushed == flushPending([rc EXCEPT !.pending = MapSet(@, start, payload)],
                                  <<>>)
      IN  [channel  |-> flushed.channel,
           accepted |-> ~flushed.threw,
           ackStart |-> start,
           messages |-> IF flushed.threw THEN <<>> ELSE flushed.messages,
           threw    |-> flushed.threw]

-----------------------------------------------------------------------------
(* connection.ts *)
(*                                                                         *)
(* A connection is a record c of the fields of CubyzConnection, the socket *)
(* (bound, number of close() calls, number of DISCONNECT datagrams handed  *)
(* to send), the send completions the socket owes (callbacks), the events  *)
(* emitted so far, the clock reading (now), and, for the handler that is   *)
(* running, the datagrams it has handed to socket.send (out) and whether   *)
(* an exception left it (threw).  The player list and the player's         *)
(* position are not part of the record.                                    *)

\* buffer.writeInt32BE(toInt32(value)): the four bytes, most significant first.
writeInt32BE(value) ==
  LET v  == toInt32(value)
      u  == IF v < 0 THEN v - Int32Min ELSE v
      b0 == (u \div 16777216) + (IF v < 0 THEN 128 ELSE 0)
  IN  <<b0, (u \div 65536) % 256, (u \div 256) % 256, u % 256>>

\* buffer.readInt32BE(offset); offset counts from 0 as in the source.
readInt32BE(buffer, offset) ==
  LET b0   == buffer[offset + 1]
      rest == buffer[offset + 2] * 65536 + buffer[offset + 3] * 256
                + buffer[offset + 4]
  IN  IF b0 >= 128
        THEN Int32Min + ((b0 - 128) * 16777216 + rest)
        ELSE b0 * 16777216 + rest

\* buffer.slice(from): the bytes from offset `from` (counted from 0) on.
slice(buffer, from) == SubSeq(buffer, from + 1, Len(buffer))

\* The text of a string as its bytes: the strings of the model are ASCII.
Utf8Backslash == 92
Utf8Quote == 34

RECURSIVE escapeZonString(_)
escapeZonString(value) ==
  IF value = <<>> THEN <<>>
  ELSE IF Head(value) = Utf8Backslash
    THEN <<Utf8Backslash, Utf8Backslash>> \o escapeZonString(Tail(value))
  ELSE IF Head(value) = Utf8Quote
    THEN <<Utf8Backslash, Utf8Quote>> \o escapeZonString(Tail(value))
  ELSE <<Head(value)>> \o escapeZonString(Tail(value))

\* `.{.version = "` , `", .name = "` and `"}` as bytes.
ZonVersionOpen ==
  <<46, 123, 46, 118, 101, 114, 115, 105, 111, 110, 32, 61, 32, 34>>
ZonNameOpen == <<34, 44, 32, 46, 110, 97, 109, 101, 32, 61, 32, 34>>
ZonClose == <<34, 125>>

buildHandshakePayload(name, version) ==
  <<HANDSHAKE_STATE_USER_DATA>> \o ZonVersionOpen \o escapeZonString(version)
    \o ZonNameOpen \o escapeZonString(name) \o ZonClose

\* The options of the connection: its name ("a"), version ("0") and the
\* connection id the constructor drew, as the eight bytes written to the wire.
name == <<97>>
version == <<48>>
connectionId == <<0, 0, 1, 2, 3, 4, 5, 6>>

\* this.socket.send(buffer, port, host): the datagram is handed to the socket;
\* sending on a socket that is not bound binds it.
socketSend(c, buffer) ==
  [c EXCEPT !.socket.bound = TRUE,
            !.socket.disconnects =
               IF buffer = <<CHANNEL_DISCONNECT>> THEN @ + 1 ELSE @,
            !.out = Append(@, buffer)]

emit(c, event) == [c EXCEPT !.events = Append(@, event)]

emitDisconnectUnguarded(c, reason) ==
  emit([c EXCEPT !.disconnectEmitted = TRUE],
       [type |-> "disconnect", reason |-> reason])

emitDisconnect(c, reason) ==
  IF c.disconnectEmitted
    THEN c
    ELSE emit([c EXCEPT !.disconnectEmitted = TRUE],
              [type |-> "disconnect", reason |-> reason])

\* A finalize that does not look at the state first.
finalizeAgain(c) ==
  [c EXCEPT !.tickTimer = None, !.playerStateTimer = None,
            !.state = "closed", !.socket.closed = @ + 1]

\* The closure finalize of close().
finalize(c) ==
  IF c.state = "closed"
    THEN c
    ELSE [c EXCEPT !.tickTimer = None, !.playerStateTimer = None,
                   !.state = "closed", !.socket.closed = @ + 1]

\* done?.(): the optional callback is None or Some("finalize"), the closure
\* of close().
callDone(done, c) == IF done = Some("finalize") THEN finalize(c) ELSE c

\* socket.send throws when the socket was closed; otherwise the datagram is
\* handed over and the completion callback, which calls done, is owed.
sendDisconnectPacket(c, done) ==
  IF c.disconnectSent
    THEN callDone(done, c)
    ELSE
      LET c1 == [c EXCEPT !.disconnectSent = TRUE] IN
      IF c1.socket.closed > 0
        THEN callDone(done, c1)
        ELSE [socketSend(c1, <<CHANNEL_DISCONNECT>>) EXCEPT
                !.callbacks = Append(@, done)]

\* A close that does not return early.
closeAnyway(c, notify) ==
  LET c1 == [c EXCEPT !.state = "closing"] IN
  IF notify THEN sendDisconnectPacket(c1, Some("finalize")) ELSE finalize(c1)

\* A close that tells the listeners.
closeEmits(c, notify) ==
  IF c.state \in {"closed", "closing"}
    THEN c
    ELSE
      LET c1 == emitDisconnect([c EXCEPT !.state = "closing"], "server") IN
      IF notify THEN sendDisconnectPacket(c1, Some("finalize")) ELSE finalize(c1)

close(c, notify) ==
  IF c.state \in {"closed", "closing"}
    THEN c
    ELSE
      LET c1 == [c EXCEPT !.state = "closing"] IN
      IF notify THEN sendDisconnectPacket(c1, Some("finalize")) ELSE finalize(c1)

\* The loop of flushSendQueues over the channels from position i on; an
\* exception of getPacket leaves the loop and the caller.
RECURSIVE flushSendQueuesFrom(_, _, _)
flushSendQueuesFrom(c, t, i) ==
  IF i > Len(SequencedChannels) THEN c
  ELSE
    LET id      == SequencedChannels[i]
        channel == c.sendChannels[id]
    IN  IF ~hasWork(channel) THEN flushSendQueuesFrom(c, t, i + 1)
        ELSE
          LET r  == getPacket(channel, t)
              c1 == [c EXCEPT !.sendChannels[id] = r.channel]
          IN  IF r.threw THEN [c1 EXCEPT !.threw = TRUE]
              ELSE IF r.packet = None THEN flushSendQueuesFrom(c1, t, i + 1)
              ELSE flushSendQueuesFrom(
                     socketSend(c1, <<id>> \o writeInt32BE(r.packet[1].start)
                                      \o r.packet[1].payload),
                     t, i + 1)

flushSendQueues(c, t) == flushSendQueuesFrom(c, t, 1)

queueConfirmation(c, channelId, start) ==
  [c EXCEPT !.pendingConfirmations =
     Append(@, [channelId |-> channelId, start |-> start, timestamp |-> c.now])]

Min(a, b) == IF a < b THEN a ELSE b
Max(a, b) == IF a > b THEN a ELSE b

\* buffer.writeUInt16BE(value)
writeUInt16BE(value) == <<value \div 256, value % 256>>

\* The entries of a CONFIRMATION datagram for a batch.
RECURSIVE confirmationEntries(_, _)
confirmationEntries(batch, t) ==
  IF batch = <<>> THEN <<>>
  ELSE
    LET entry == Head(batch)
        dt    == t - entry.timestamp
        half  == Max(0, Min(65535, dt \div 2))
    IN  <<entry.channelId>> \o writeUInt16BE(half) \o writeInt32BE(entry.start)
          \o confirmationEntries(Tail(batch), t)

\* flushConfirmations sending every pending confirmation at once.
flushConfirmationsAll(c) ==
  IF Len(c.pendingConfirmations) = 0 THEN c
  ELSE
    socketSend([c EXCEPT !.pendingConfirmations = <<>>],
               <<CHANNEL_CONFIRMATION>>
                 \o confirmationEntries(c.pendingConfirmations, c.now))

\* flushConfirmations sending a batch and keeping it queued.
flushConfirmationsAgain(c) ==
  IF Len(c.pendingConfirmations) = 0 THEN c
  ELSE
    LET n     == Min(CONFIRMATION_BATCH_SIZE, Len(c.pendingConfirmations))
        batch == SubSeq(c.pendingConfirmations, 1, n)
    IN  socketSend(c, <<CHANNEL_CONFIRMATION>> \o confirmationEntries(batch, c.now))

flushConfirmations(c) ==
  IF Len(c.pendingConfirmations) = 0 THEN c
  ELSE
    LET n     == Min(CONFIRMATION_BATCH_SIZE, Len(c.pendingConfirmations))
        batch == SubSeq(c.pendingConfirmations, 1, n)
        c1    == [c EXCEPT !.pendingConfirmations =
                     SubSeq(@, n + 1, Len(@))]
    IN  socketSend(c1, <<CHANNEL_CONFIRMATION>> \o confirmationEntries(batch, c.now))

sendKeepAlive(c) ==
  socketSend([c EXCEPT !.lastKeepAliveSent = c.now], <<CHANNEL_KEEP_ALIVE>>)

sendInit(c) ==
  [socketSend([c EXCEPT !.lastInitSent = c.now],
              <<CHANNEL_INIT>> \o connectionId
                \o writeInt32BE(c.sendChannels[CHANNEL_LOSSY].initialSequence)
                \o writeInt32BE(c.sendChannels[CHANNEL_FAST].initialSequence)
                \o writeInt32BE(c.sendChannels[CHANNEL_SLOW].initialSequence))
     EXCEPT !.initSent = TRUE]

sendInitAck(c) == socketSend(c, <<CHANNEL_INIT>> \o connectionId)

\* tick() resending INIT only after more than the interval has passed.
tickResendsLate(c) ==
  LET c1 == IF c.state = "awaitingServer"
               /\ (~c.initSent \/ c.now - c.lastInitSent > INIT_RESEND_INTERVAL_MS)
              THEN sendInit(c) ELSE c
  IN  IF c1.state = "connected"
         /\ c1.now - c1.lastInbound >= KEEP_ALIVE_TIMEOUT_MS
        THEN close(emitDisconnect(c1, "timeout"), FALSE)
        ELSE
          LET c2 == IF c1.now - c1.lastKeepAliveSent >= KEEP_ALIVE_INTERVAL_MS
                      THEN sendKeepAlive(c1) ELSE c1
          IN  flushSendQueues(flushConfirmations(c2), c.now)

tick(c) ==
  LET c1 == IF c.state = "awaitingServer"
               /\ (~c.initSent \/ c.now - c.lastInitSent >= INIT_RESEND_INTERVAL_MS)
              THEN sendInit(c) ELSE c
  IN  IF c1.state = "connected"
         /\ c1.now - c1.lastInbound >= KEEP_ALIVE_TIMEOUT_MS
        THEN close(emitDisconnect(c1, "timeout"), FALSE)
        ELSE
          LET c2 == IF c1.now - c1.lastKeepAliveSent >= KEEP_ALIVE_INTERVAL_MS
                      THEN sendKeepAlive(c1) ELSE c1
          IN  flushSendQueues(flushConfirmations(c2), c.now)

\* ensureReceiveChannels handing the FAST and SLOW starts to the wrong channels.
ensureReceiveChannelsSwapped(c, lossyStart, fastStart, slowStart) ==
  LET starts == (CHANNEL_LOSSY :> lossyStart) @@ (CHANNEL_FAST :> slowStart)
                  @@ (CHANNEL_SLOW :> fastStart)
  IN  [c EXCEPT !.receiveChannels =
         [id \in DOMAIN starts |->
            IF id \in DOMAIN c.receiveChannels
              THEN c.receiveChannels[id]
              ELSE ReceiveChannel(id, starts[id])]]

ensureReceiveChannels(c, lossyStart, fastStart, slowStart) ==
  LET starts == (CHANNEL_LOSSY :> lossyStart) @@ (CHANNEL_FAST :> fastStart)
                  @@ (CHANNEL_SLOW :> slowStart)
  IN  [c EXCEPT !.receiveChannels =
         [id \in DOMAIN starts |->
            IF id \in DOMAIN c.receiveChannels
              THEN c.receiveChannels[id]
              ELSE ReceiveChannel(id, starts[id])]]

queueHandshake(c) ==
  IF c.handshakeQueued THEN c
  ELSE [c EXCEPT !.sendChannels[CHANNEL_FAST] =
                    queue(@, PROTOCOL_HANDSHAKE,
                          buildHandshakePayload(name, version)),
                 !.handshakeQueued = TRUE]

handleInitPacket(c, buffer) ==
  IF Len(buffer) = 1 + 8 THEN c
  ELSE IF Len(buffer) < 1 + 8 + 12 THEN c
  ELSE
    LET c1 == ensureReceiveChannels(
                [c EXCEPT !.remoteConnectionId = Some(SubSeq(buffer, 2, 9))],
                readInt32BE(buffer, 9), readInt32BE(buffer, 13),
                readInt32BE(buffer, 17))
    IN  IF c1.state # "connected"
          THEN emit(queueHandshake(sendInitAck(
                      [c1 EXCEPT !.state = "connected", !.lastInbound = c.now])),
                    [type |-> "connected"])
          ELSE c1

encodePlayerStatePacket(t) ==
  [i \in 1..60 |-> 0] \o writeUInt16BE(t % 65536)

publishPlayerState(c, force) ==
  IF ~c.handshakeComplete THEN c
  ELSE IF ~force /\ c.now - c.lastPlayerStateSent < 50
    THEN c
  ELSE [c EXCEPT !.lastPlayerStateSent = c.now,
                 !.sendChannels[CHANNEL_LOSSY] =
                    queue(@, PROTOCOL_PLAYER_STATE, encodePlayerStatePacket(c.now))]

\* setInterval(() => this.publishPlayerState(), 100): the timer is "set".
startPlayerStateLoop(c) ==
  IF c.playerStateTimer # None THEN c
  ELSE [c EXCEPT !.playerStateTimer = Some("interval")]

\* parseHandshake throws on an empty payload (the caller logs it); the state
\* is the first byte.
handleHandshake(c, payload) ==
  IF Len(payload) = 0 THEN c
  ELSE IF payload[1] = HANDSHAKE_STATE_SERVER_DATA
    THEN emit(publishPlayerState(
                startPlayerStateLoop(
                  emit([c EXCEPT !.handshakeComplete = TRUE],
                       [type |-> "players"])),
                TRUE),
              [type |-> "handshakeComplete"])
  ELSE c

handleProtocol(c, channelId, protocolId, payload) ==
  IF protocolId = PROTOCOL_HANDSHAKE THEN handleHandshake(c, payload)
  ELSE IF protocolId = PROTOCOL_CHAT
    THEN emit(c, [type |-> "chat", payload |-> payload])
  ELSE emit(c, [type |-> "protocol", channelId |-> channelId,
                protocolId |-> protocolId, payload |-> payload])

RECURSIVE handleProtocols(_, _, _)
handleProtocols(c, channelId, messages) ==
  IF messages = <<>> THEN c
  ELSE handleProtocols(
         handleProtocol(c, channelId, Head(messages).protocolId,
                        Head(messages).payload),
         channelId, Tail(messages))

\* [kind |-> "throw"] or the parsed packet.
parseChannelPacket(buffer) ==
  IF Len(buffer) > 0
     /\ buffer[1] \in {CHANNEL_INIT, CHANNEL_KEEP_ALIVE, CHANNEL_DISCONNECT}
    THEN [kind |-> "throw"]
  ELSE IF Len(buffer) < 5 THEN [kind |-> "throw"]
  ELSE [kind |-> "packet", channelId |-> buffer[1],
        start |-> readInt32BE(buffer, 1), payload |-> slice(buffer, 5)]

\* handleSequencedPacket acknowledging a datagram it has no channel for.
handleSequencedPacketConfirmsUnknown(c, buffer) ==
  LET parsed == parseChannelPacket(buffer) IN
  IF parsed.kind = "throw" THEN [c EXCEPT !.threw = TRUE]
  ELSE IF parsed.channelId \notin DOMAIN c.receiveChannels
    THEN queueConfirmation(c, parsed.channelId, parsed.start)
  ELSE
    LET result == handlePacket(c.receiveChannels[parsed.channelId],
                               parsed.start, parsed.payload)
        c1     == [c EXCEPT !.receiveChannels[parsed.channelId] = result.channel]
    IN  IF result.threw THEN [c1 EXCEPT !.threw = TRUE]
        ELSE IF ~result.accepted THEN c1
        ELSE handleProtocols(
               queueConfirmation(c1, parsed.channelId, result.ackStart),
               parsed.channelId, result.messages)

\* An exception of parseChannelPacket or of the channel's handlePacket
\* rejects the promise, which the socket's message listener logs.
handleSequencedPacket(c, buffer) ==
  LET parsed == parseChannelPacket(buffer) IN
  IF parsed.kind = "throw" THEN [c EXCEPT !.threw = TRUE]
  ELSE IF parsed.channelId \notin DOMAIN c.receiveChannels THEN c
  ELSE
    LET result == handlePacket(c.receiveChannels[parsed.channelId],
                               parsed.start, parsed.payload)
        c1     == [c EXCEPT !.receiveChannels[parsed.channelId] = result.channel]
    IN  IF result.threw THEN [c1 EXCEPT !.threw = TRUE]
        ELSE IF ~result.accepted THEN c1
        ELSE handleProtocols(
               queueConfirmation(c1, parsed.channelId, result.ackStart),
               parsed.channelId, result.messages)

RECURSIVE handleConfirmationFrom(_, _, _)
handleConfirmationFrom(c, buffer, offset) ==
  IF offset + 7 > Len(buffer) THEN c
  ELSE
    LET channelId == buffer[offset + 1]
        start     == readInt32BE(buffer, offset + 3)
    IN  handleConfirmationFrom(
          IF channelId \in DOMAIN c.sendChannels
            THEN [c EXCEPT !.sendChannels[channelId] = handleAck(@, start)]
            ELSE c,
          buffer, offset + 7)

handleConfirmation(c, buffer) == handleConfirmationFrom(c, buffer, 0)

\* CubyzConnection.handlePacket, the listener of the socket's message event.
connectionHandlePacket(c, buffer) ==
  IF Len(buffer) = 0 THEN c
  ELSE
    LET channelId == buffer[1]
        c1        == [c EXCEPT !.lastInbound = c.now]
    IN  IF channelId = CHANNEL_INIT THEN handleInitPacket(c1, buffer)
        ELSE IF channelId = CHANNEL_CONFIRMATION
          THEN handleConfirmation(c1, slice(buffer, 1))
        ELSE IF channelId = CHANNEL_KEEP_ALIVE THEN c1
        ELSE IF channelId = CHANNEL_DISCONNECT
          THEN close(emitDisconnect(c1, "server"), FALSE)
        ELSE handleSequencedPacket(c1, buffer)

sendChat(c, message) ==
  [c EXCEPT !.sendChannels[CHANNEL_LOSSY] = queue(@, PROTOCOL_CHAT, message)]

\* start(): the socket is bound, the tick timer set and the first INIT sent.
connectionStart(c) ==
  sendInit([c EXCEPT !.socket.bound = TRUE, !.tickTimer = Some("interval")])

-----------------------------------------------------------------------------
(* State *)

VARIABLES
  \* fields of CubyzConnection
  state, remoteConnectionId, handshakeComplete, sendChannels, receiveChannels,
  pendingConfirmations, lastKeepAliveSent, lastInbound, lastInitSent,
  tickTimer, playerStateTimer, lastPlayerStateSent, disconnectSent,
  disconnectEmitted, initSent, handshakeQueued,
  \* the environment: Date.now(), the UDP socket and the send completions it
  \* owes, the events emitted to the listeners
  now, socket, callbacks, events,
  \* what the callers did and saw: the queue() calls, the packets on the wire,
  \* the packets passed to handlePacket, the messages it returned, and the
  \* last operation with its result
  queued, wire, passed, delivered, last

connFields == <<state, remoteConnectionId, handshakeComplete,
                pendingConfirmations, lastKeepAliveSent, lastInbound,
                lastInitSent, tickTimer, playerStateTimer, lastPlayerStateSent,
                disconnectSent, disconnectEmitted, initSent, handshakeQueued>>
envVars == <<socket, callbacks, events>>
vars == <<state, remoteConnectionId, handshakeComplete, sendChannels,
          receiveChannels, pendingConfirmations, lastKeepAliveSent,
          lastInbound, lastInitSent, tickTimer, playerStateTimer,
          lastPlayerStateSent, disconnectSent, disconnectEmitted, initSent,
          handshakeQueued, now, socket, callbacks, events,
          queued, wire, passed, delivered, last>>

\* The connection as its constructor leaves it, apart from the channels.
ConstructedFields ==
  /\ state = "awaitingServer"
  /\ remoteConnectionId = None
  /\ handshakeComplete = FALSE
  /\ pendingConfirmations = <<>>
  /\ lastKeepAliveSent = now
  /\ lastInbound = now
  /\ lastInitSent = 0
  /\ tickTimer = None
  /\ playerStateTimer = None
  /\ lastPlayerStateSent = 0
  /\ disconnectSent = FALSE
  /\ disconnectEmitted = FALSE
  /\ initSent = FALSE
  /\ handshakeQueued = FALSE
  /\ socket = [bound |-> FALSE, closed |-> 0, disconnects |-> 0]
  /\ callbacks = <<>>
  /\ events = <<>>

NoCall == [op |-> "none"]

-----------------------------------------------------------------------------
(* SendChannel driven directly: queue, getPacket and handleAck in any order *)

MaxQueued == 2
MaxBody == 1
MaxAckOffset == 4
MaxSendClock == 1

ProtocolIds == {7}
Body(n) == [i \in 1..n |-> 170]
SendBodies == {Body(n) : n \in 0..MaxBody}
InitialSequences == {100, Int32Max - 2}
\* Date.now() is read at the instants just before and at each multiple of
\* the resend timeout.
SendClockPoints ==
  UNION {{k * RESEND_TIMEOUT_MS - 1, k * RESEND_TIMEOUT_MS} : k \in 1..MaxSendClock}

TheSend == sendChannels[CHANNEL_FAST]

SendInit ==
  /\ now = 0
  /\ ConstructedFields
  /\ \E s \in InitialSequences :
       sendChannels = [c \in {CHANNEL_FAST} |-> SendChannel(c, s)]
  /\ receiveChannels = <<>>
  /\ queued = <<>>
  /\ wire = {}
  /\ passed = {}
  /\ delivered = <<>>
  /\ last = NoCall

SendQueue ==
  /\ Len(queued) < MaxQueued
  /\ \E p \in ProtocolIds, b \in SendBodies :
       /\ sendChannels' = [sendChannels EXCEPT ![CHANNEL_FAST] = queue(@, p, b)]
       /\ queued' = Append(queued, [protocolId |-> p, payload |-> b])
       /\ last' = [op |-> "queue"]
  /\ UNCHANGED <<connFields, envVars, receiveChannels, now, wire, passed,
                 delivered>>

SendGetPacket ==
  LET r == getPacket(TheSend, now) IN
  /\ hasWork(TheSend)
  /\ sendChannels' = [sendChannels EXCEPT ![CHANNEL_FAST] = r.channel]
  /\ wire' = wire \cup {[start |-> p.start, payload |-> p.payload] :
                          p \in {r.packet[i] : i \in 1..Len(r.packet)}}
  /\ last' = [op |-> "getPacket", packet |-> r.packet, threw |-> r.threw,
              at |-> now]
  /\ UNCHANGED <<connFields, envVars, receiveChannels, now, queued, passed,
                 delivered>>

AckStarts == {addSeq(TheSend.initialSequence, k) : k \in 0..MaxAckOffset}

SendHandleAck ==
  /\ \E s \in AckStarts :
       /\ sendChannels' = [sendChannels EXCEPT ![CHANNEL_FAST] = handleAck(@, s)]
       /\ last' = [op |-> "handleAck", start |-> s]
  /\ UNCHANGED <<connFields, envVars, receiveChannels, now, queued, wire,
                 passed, delivered>>

SendClock ==
  /\ \E t \in SendClockPoints :
       /\ t > now
       /\ now' = t
  /\ last' = [op |-> "clock"]
  /\ UNCHANGED <<connFields, envVars, sendChannels, receiveChannels, queued,
                 wire, passed, delivered>>

SendNext == SendQueue \/ SendGetPacket \/ SendHandleAck \/ SendClock

SpecSend == SendInit /\ [][SendNext]_vars

\* C3: on a SendChannel driven by any sequence of queue, getPacket and
\* handleAck calls (acknowledged starts arbitrary), fullyConfirmed never moves
\* backwards under seqLessThan and never exceeds nextIndex.
C3_FrontierMonotone ==
  /\ [](~seqLessThan(TheSend.nextIndex, TheSend.fullyConfirmed))
  /\ [][~seqLessThan(TheSend.fullyConfirmed', TheSend.fullyConfirmed)]_vars

\* C3 witness: the frontier has advanced past the sign boundary after an
\* acknowledgment of a start that was never emitted was recorded.
C3_Witness ==
  /\ TheSend.initialSequence > 0
  /\ TheSend.fullyConfirmed < 0
  /\ TheSend.fullyConfirmed = TheSend.nextIndex
  /\ \E s \in DOMAIN TheSend.acked : TheSend.acked[s] = 0

-----------------------------------------------------------------------------
(* ReceiveChannel driven directly: handlePacket with arbitrary packets *)

MaxCalls == 4
MaxStart == 3

\* The channel starts one byte before the sign boundary, so that the starts
\* offered lie on both sides of it.
RecvOrigin == Int32Max - 1
RecvStarts == {addSeq(RecvOrigin, k) : k \in 0..MaxStart}
RecvPayloads == {<<>>, <<7, 0>>, <<7, 1>>, <<170>>}

TheRecv == receiveChannels[CHANNEL_FAST]

IsPrefix(s, t) == Len(s) <= Len(t) /\ SubSeq(t, 1, Len(s)) = s

RecvInit ==
  /\ now = 0
  /\ ConstructedFields
  /\ sendChannels = <<>>
  /\ receiveChannels = [c \in {CHANNEL_FAST} |-> ReceiveChannel(c, RecvOrigin)]
  /\ queued = <<>>
  /\ wire = {}
  /\ passed = {}
  /\ delivered = <<>>
  /\ last = NoCall

\* One handlePacket call on the channel, recorded: replay tells whether the
\* same (start, payload) was passed before, replayed whether any call so far
\* was such a repetition, calls counts the calls made (up to MaxCalls).
CallHandlePacket(start, payload) ==
  LET r   == handlePacket(TheRecv, start, payload)
      pkt == [start |-> start, payload |-> payload]
  IN  /\ receiveChannels' = [receiveChannels EXCEPT ![CHANNEL_FAST] = r.channel]
      /\ passed' = passed \cup {pkt}
      /\ delivered' = delivered \o r.messages
      /\ last' = [ op       |-> "handlePacket",
                   start    |-> start,
                   payload  |-> payload,
                   replay   |-> pkt \in passed,
                   stale    |-> seqLessThan(start, TheRecv.expected),
                   waiting  |-> MapHas(TheRecv.pending, start),
                   accepted |-> r.accepted,
                   ackStart |-> r.ackStart,
                   messages |-> r.messages,
                   threw    |-> r.threw,
                   calls    |-> IF last.op # "handlePacket" THEN 1
                                ELSE IF last.calls < MaxCalls
                                  THEN last.calls + 1 ELSE MaxCalls,
                   replayed |-> pkt \in passed \/
                                (last.op = "handlePacket" /\ last.replayed) ]

RecvCalls == IF last.op = "handlePacket" THEN last.calls ELSE 0

RecvHandlePacket ==
  /\ RecvCalls < MaxCalls
  /\ \E start \in RecvStarts, payload \in RecvPayloads :
       CallHandlePacket(start, payload)
  /\ UNCHANGED <<connFields, envVars, sendChannels, now, queued, wire>>

RecvNext == RecvHandlePacket

SpecRecv == RecvInit /\ [][RecvNext]_vars

\* C4 as stated: a handlePacket call with a (start, payload) that was passed
\* before returns accepted = true and no messages.
C4_ReplayYieldsNothing ==
  (last.op = "handlePacket" /\ last.replay) =>
    (~last.threw /\ last.accepted /\ last.messages = <<>>)

NoEmptyPassed == \A pkt \in passed : pkt.payload # <<>>

\* C4 amended: when no packet with an empty payload has been passed, a
\* handlePacket call with a (start, payload) that was passed before returns
\* accepted = true, ackStart = start and no messages, the packet being behind
\* expected or still in pending.
C4_ReplayOfNonEmptyYieldsNothing ==
  (last.op = "handlePacket" /\ last.replay /\ NoEmptyPassed) =>
    /\ ~last.threw /\ last.accepted /\ last.messages = <<>>
    /\ last.ackStart = last.start
    /\ (last.stale \/ last.waiting)

\* C4 witness: a packet that completed a message was replayed after it was
\* consumed, and no empty payload was ever passed.
C4_Witness ==
  /\ last.op = "handlePacket" /\ last.replay /\ last.stale
  /\ NoEmptyPassed
  /\ delivered # <<>>

-----------------------------------------------------------------------------
(* Reassembly: a stream of frames cut into packets, the packets passed to   *)
(* handlePacket in any order and any number of times                        *)

MaxMessages == 2
MaxCutPos == 4
LongBody == 128

\* binary.ts as src/unnamed/part_001 has it: the size with its most
\* significant seven bits first, which is what peekHeader reads.
RECURSIVE encodeVarIntMsbLoop(_, _)
encodeVarIntMsbLoop(val, numBytes) ==
  IF numBytes = 0 THEN <<>>
  ELSE LET shifted == val \div (128 ^ (numBytes - 1))
           byte    == shifted % 128
       IN  <<IF numBytes > 1 THEN byte + 128 ELSE byte>>
             \o encodeVarIntMsbLoop(val, numBytes - 1)

\* Math.floor(Math.log2(val)) + 1 for val >= 1: the number of binary digits.
RECURSIVE bitLength(_)
bitLength(val) == IF val < 2 THEN 1 ELSE 1 + bitLength(val \div 2)

\* Math.ceil(bits / 7)
VarIntNumBytes(val) == (bitLength(val) + 6) \div 7

encodeVarIntMsbFirst(value) ==
  IF value < 0 THEN <<>>
  ELSE IF value = 0 THEN <<0>>
  ELSE encodeVarIntMsbLoop(value, VarIntNumBytes(value))

\* decodeVarInt of the most-significant-first variant.
RECURSIVE decodeVarIntMsbFirstLoop(_, _, _, _)
decodeVarIntMsbFirstLoop(buffer, offset, value, consumed) ==
  IF offset + consumed >= Len(buffer)
    THEN [kind |-> "throw", error |-> "reached end of buffer"]
  ELSE
    LET byte == buffer[offset + consumed + 1]
        v    == shl7or(value, byte % 128)
    IN  IF byte < 128
          THEN [kind |-> "value", value |-> v, consumed |-> consumed + 1]
        ELSE IF consumed + 1 >= 5
          THEN [kind |-> "throw", error |-> "value too large"]
        ELSE decodeVarIntMsbFirstLoop(buffer, offset, v, consumed + 1)

decodeVarIntMsbFirst(buffer, offset) ==
  decodeVarIntMsbFirstLoop(buffer, offset, 0, 0)

\* A well-formed frame and the byte stream of a list of messages.
Frame(m) == <<m.protocolId>> \o encodeVarIntMsbFirst(Len(m.payload)) \o m.payload

RECURSIVE StreamOf(_)
StreamOf(messages) ==
  IF messages = <<>> THEN <<>>
  ELSE Frame(Head(messages)) \o StreamOf(Tail(messages))

ReasmBodies == {Body(0), Body(1), Body(LongBody)}
ReasmMessages == [protocolId : ProtocolIds, payload : ReasmBodies]
ReasmLists == UNION {[1..n -> ReasmMessages] : n \in 1..MaxMessages}

\* The packets of a stream cut at the positions of cuts (a cut at k falls
\* between byte k and byte k + 1), the first starting at origin.
PacketsOf(stream, cuts, origin) ==
  LET edges == cuts \cup {0, Len(stream)}
  IN  { [ start   |-> addSeq(origin, a),
          payload |-> SubSeq(stream, a + 1,
                             CHOOSE b \in edges :
                               b > a /\ \A c \in edges : c > a => b <= c) ]
        : a \in edges \ {Len(stream)} }

ReasmInit ==
  /\ now = 0
  /\ ConstructedFields
  /\ sendChannels = <<>>
  /\ receiveChannels = [c \in {CHANNEL_FAST} |-> ReceiveChannel(c, RecvOrigin)]
  /\ queued \in ReasmLists
  /\ \E cuts \in SUBSET (1..MaxCutPos) :
       /\ \A k \in cuts : k < Len(StreamOf(queued))
       /\ wire = PacketsOf(StreamOf(queued), cuts, RecvOrigin)
  /\ passed = {}
  /\ delivered = <<>>
  /\ last = NoCall

ReasmDeliver ==
  /\ \E pkt \in wire : CallHandlePacket(pkt.start, pkt.payload)
  /\ UNCHANGED <<connFields, envVars, sendChannels, now, queued, wire>>

ReasmNext == ReasmDeliver

SpecReasm == ReasmInit /\ [][ReasmNext]_vars

\* C2: whatever the order in which the packets of a cut stream are passed
\* and however often each is repeated, no call throws, the messages returned
\* so far are the first messages of the original list, each once, and once
\* every packet has been passed they are the whole list.
C2_ReassemblyOrderIndependent ==
  /\ last.op = "handlePacket" => ~last.threw
  /\ IsPrefix(delivered, queued)
  /\ passed = wire => delivered = queued

\* C2 witness: a stream of two frames cut inside a two-byte size varint; the
\* packet at the origin was passed last, after repetitions of the others, and
\* that call returned both messages.
C2_Witness ==
  /\ passed = wire
  /\ Cardinality(wire) >= 3
  /\ \E pkt \in wire : pkt.start = addSeq(RecvOrigin, 2)
  /\ Len(queued) = 2 /\ Len(queued[1].payload) = LongBody
  /\ last.op = "handlePacket" /\ last.start = RecvOrigin
  /\ ~last.replay /\ last.replayed
  /\ last.messages = queued
  /\ TheRecv.pending = <<>>

-----------------------------------------------------------------------------
(* End to end: every packet a SendChannel returns is passed to a            *)
(* ReceiveChannel constructed with the same initial sequence                *)

MaxLinkQueued == 2
MaxLinkClock == 1

LinkBodies == {Body(0), Body(1), Body(LongBody - 1), Body(LongBody)}

LinkInit ==
  /\ now = 0
  /\ ConstructedFields
  /\ \E s \in InitialSequences :
       /\ sendChannels = [c \in {CHANNEL_FAST} |-> SendChannel(c, s)]
       /\ receiveChannels = [c \in {CHANNEL_FAST} |-> ReceiveChannel(c, s)]
  /\ queued = <<>>
  /\ wire = {}
  /\ passed = {}
  /\ delivered = <<>>
  /\ last = NoCall

LinkQueue ==
  /\ Len(queued) < MaxLinkQueued
  /\ \E p \in ProtocolIds, b \in LinkBodies :
       /\ sendChannels' = [sendChannels EXCEPT ![CHANNEL_FAST] = queue(@, p, b)]
       /\ queued' = Append(queued, [protocolId |-> p, payload |-> b])
  /\ last' = [op |-> "queue"]
  /\ UNCHANGED <<connFields, envVars, receiveChannels, now, wire, passed,
                 delivered>>

\* getPacket on the sender and, when it returns a packet (fresh or resent),
\* handlePacket on the receiver with the packet's start and payload.
LinkTransfer ==
  LET r == getPacket(TheSend, now) IN
  /\ r.packet # None
  /\ sendChannels' = [sendChannels EXCEPT ![CHANNEL_FAST] = r.channel]
  /\ wire' = wire \cup {[start |-> r.packet[1].start,
                         payload |-> r.packet[1].payload]}
  /\ CallHandlePacket(r.packet[1].start, r.packet[1].payload)
  /\ UNCHANGED <<connFields, envVars, now, queued>>

\* The receiver's acknowledgment of a packet it was passed reaches the sender.
LinkAck ==
  /\ \E pkt \in passed :
       sendChannels' = [sendChannels EXCEPT ![CHANNEL_FAST] = handleAck(@, pkt.start)]
  /\ last' = [op |-> "handleAck"]
  /\ UNCHANGED <<connFields, envVars, receiveChannels, now, queued, wire,
                 passed, delivered>>

LinkClock ==
  /\ now < MaxLinkClock * RESEND_TIMEOUT_MS
  /\ now' = now + RESEND_TIMEOUT_MS
  /\ last' = [op |-> "clock"]
  /\ UNCHANGED <<connFields, envVars, sendChannels, receiveChannels, queued,
                 wire, passed, delivered>>

LinkNext == LinkQueue \/ LinkTransfer \/ LinkAck \/ LinkClock

SpecLink == LinkInit /\ [][LinkNext]_vars

\* C1: the receiver has returned exactly the (protocolId, payload) pairs of
\* the frames the sender has emitted so far, unchanged and in queue order,
\* and no handlePacket call threw.
C1_InOrderDelivery ==
  /\ last.op = "handlePacket" => ~last.threw
  /\ delivered = SubSeq(queued, 1, Len(queued) - Len(TheSend.pendingMessages))

-----------------------------------------------------------------------------
(* The life cycle of a connection: start(), the tick timer, the             *)
(* player-state timer, inbound datagrams, close() and the completion of the *)
(* DISCONNECT send, in any order                                            *)

MaxConnClock == 1
MaxPendingConfirmations == 1

\* The initial sequences the constructor drew, and those of the peer.
LocalSequences ==
  (CHANNEL_LOSSY :> 10) @@ (CHANNEL_FAST :> Int32Max - 2) @@ (CHANNEL_SLOW :> 30)
RemoteSequences ==
  (CHANNEL_LOSSY :> 40) @@ (CHANNEL_FAST :> Int32Min) @@ (CHANNEL_SLOW :> 60)
RemoteConnectionId == <<0, 0, 9, 9, 9, 9, 9, 9>>

\* The datagrams the peer may send.
RemoteInit ==
  <<CHANNEL_INIT>> \o RemoteConnectionId
    \o writeInt32BE(RemoteSequences[CHANNEL_LOSSY])
    \o writeInt32BE(RemoteSequences[CHANNEL_FAST])
    \o writeInt32BE(RemoteSequences[CHANNEL_SLOW])
RemoteKeepAlive == <<CHANNEL_KEEP_ALIVE>>
RemoteDisconnect == <<CHANNEL_DISCONNECT>>
RemoteConfirmation ==
  <<CHANNEL_CONFIRMATION, CHANNEL_FAST>> \o writeUInt16BE(0)
    \o writeInt32BE(LocalSequences[CHANNEL_FAST])
RemoteServerData ==
  <<CHANNEL_FAST>> \o writeInt32BE(RemoteSequences[CHANNEL_FAST])
    \o <<PROTOCOL_HANDSHAKE>> \o encodeVarIntMsbFirst(1)
    \o <<HANDSHAKE_STATE_SERVER_DATA>>
Datagrams ==
  {RemoteInit, RemoteKeepAlive, RemoteDisconnect, RemoteConfirmation,
   RemoteServerData}

ConnClockPoints ==
  UNION {{k * KEEP_ALIVE_TIMEOUT_MS - 1, k * KEEP_ALIVE_TIMEOUT_MS} :
           k \in 1..MaxConnClock}

\* The connection object as the variables hold it, at the start of a handler.
This ==
  [ state                |-> state,
    remoteConnectionId   |-> remoteConnectionId,
    handshakeComplete    |-> handshakeComplete,
    sendChannels         |-> sendChannels,
    receiveChannels      |-> receiveChannels,
    pendingConfirmations |-> pendingConfirmations,
    lastKeepAliveSent    |-> lastKeepAliveSent,
    lastInbound          |-> lastInbound,
    lastInitSent         |-> lastInitSent,
    tickTimer            |-> tickTimer,
    playerStateTimer     |-> playerStateTimer,
    lastPlayerStateSent  |-> lastPlayerStateSent,
    disconnectSent       |-> disconnectSent,
    disconnectEmitted    |-> disconnectEmitted,
    initSent             |-> initSent,
    handshakeQueued      |-> handshakeQueued,
    socket               |-> socket,
    callbacks            |-> callbacks,
    events               |-> events,
    now                  |-> now,
    out                  |-> <<>>,
    threw                |-> FALSE ]

\* The handler op(arg) ran and left the connection as c: last records the
\* call, the phase it found, the datagrams it handed to the socket, the events
\* it emitted and whether an exception left it.
Handled(op, arg, c) ==
  /\ state' = c.state
  /\ remoteConnectionId' = c.remoteConnectionId
  /\ handshakeComplete' = c.handshakeComplete
  /\ sendChannels' = c.sendChannels
  /\ receiveChannels' = c.receiveChannels
  /\ pendingConfirmations' = c.pendingConfirmations
  /\ lastKeepAliveSent' = c.lastKeepAliveSent
  /\ lastInbound' = c.lastInbound
  /\ lastInitSent' = c.lastInitSent
  /\ tickTimer' = c.tickTimer
  /\ playerStateTimer' = c.playerStateTimer
  /\ lastPlayerStateSent' = c.lastPlayerStateSent
  /\ disconnectSent' = c.disconnectSent
  /\ disconnectEmitted' = c.disconnectEmitted
  /\ initSent' = c.initSent
  /\ handshakeQueued' = c.handshakeQueued
  /\ socket' = c.socket
  /\ callbacks' = c.callbacks
  /\ events' = c.events
  /\ last' = [op |-> op, arg |-> arg, before |-> state, sent |-> c.out,
              emitted |-> SubSeq(c.events, Len(events) + 1, Len(c.events)),
              threw |-> c.threw]

Ran(op, arg, c) ==
  /\ Handled(op, arg, c)
  /\ UNCHANGED <<now, queued, wire, passed, delivered>>

Init ==
  /\ now = 0
  /\ ConstructedFields
  /\ sendChannels = [id \in DOMAIN LocalSequences |->
                       SendChannel(id, LocalSequences[id])]
  /\ receiveChannels = <<>>
  /\ queued = <<>>
  /\ wire = {}
  /\ passed = {}
  /\ delivered = <<>>
  /\ last = NoCall

\* start() on a socket that was neither bound nor closed: the bind succeeds.
Start ==
  /\ ~socket.bound
  /\ socket.closed = 0
  /\ tickTimer = None
  /\ Ran("start", <<>>, connectionStart(This))

\* The interval timer of start() fires.
Tick ==
  /\ tickTimer # None
  /\ Ran("tick", <<>>, tick(This))

\* The interval timer of startPlayerStateLoop() fires.
PlayerStateTick ==
  /\ playerStateTimer # None
  /\ Ran("publishPlayerState", <<>>, publishPlayerState(This, FALSE))

\* The socket's message event: an open, bound socket receives a datagram.
Message ==
  /\ socket.bound
  /\ socket.closed = 0
  /\ \E buffer \in Datagrams :
       /\ buffer[1] \in DOMAIN receiveChannels =>
            Len(pendingConfirmations) < MaxPendingConfirmations
       /\ Ran("message", buffer, connectionHandlePacket(This, buffer))

\* The application calls close(options).
Close ==
  /\ \E notify \in BOOLEAN : Ran("close", notify, close(This, notify))

\* The socket reports the completion of the DISCONNECT send: the callback
\* handed to socket.send runs done.
SendCompletion ==
  /\ callbacks # <<>>
  /\ Ran("sendCompletion", <<>>,
         callDone(Head(callbacks), [This EXCEPT !.callbacks = Tail(@)]))

\* Time passes between two handlers.
Clock ==
  /\ \E t \in ConnClockPoints : t > now /\ now' = t
  /\ last' = [op |-> "clock"]
  /\ UNCHANGED <<connFields, envVars, sendChannels, receiveChannels, queued,
                 wire, passed, delivered>>

Next ==
  \/ Start
  \/ Tick
  \/ PlayerStateTick
  \/ Message
  \/ Close
  \/ SendCompletion
  \/ Clock

Spec == Init /\ [][Next]_vars

\* The socket always reports the completion of a send it accepted.
FairSpec == Spec /\ WF_vars(SendCompletion)

\* The disconnect events emitted so far.
DisconnectEvents == {i \in DOMAIN events : events[i].type = "disconnect"}

\* The handler that ran last was the message listener with a DISCONNECT
\* datagram of the peer.
PeerDisconnectRan == last.op = "message" /\ last.arg = RemoteDisconnect

\* The handler that ran last was a tick that found the phase connected and
\* no datagram received for KEEP_ALIVE_TIMEOUT_MS.
TimeoutTickRan ==
  /\ last.op = "tick"
  /\ last.before = "connected"
  /\ now - lastInbound >= KEEP_ALIVE_TIMEOUT_MS

\* C5: whatever the order of peer DISCONNECT datagrams, timeout ticks and
\* close() calls, at most one disconnect event is emitted.
C5_DisconnectAtMostOnce == Cardinality(DisconnectEvents) <= 1

\* A timeout tick that ran after a disconnect event had been emitted for a
\* peer DISCONNECT, and after another event.
C5_Witness ==
  /\ TimeoutTickRan
  /\ state = "closed"
  /\ Cardinality(DisconnectEvents) = 1
  /\ events[Len(events)].type # "disconnect"
  /\ \E i \in DisconnectEvents : events[i].reason = "server"

\* C6 as stated: after a peer DISCONNECT datagram, a keep-alive timeout or a
\* local close() call, the phase is closing (or already closed) and the
\* disconnect event has been emitted exactly once.
C6_FatalEventEmitsDisconnect ==
  (PeerDisconnectRan \/ TimeoutTickRan \/ last.op = "close") =>
    /\ state \in {"closing", "closed"}
    /\ Cardinality(DisconnectEvents) = 1

\* C6 amended: after a peer DISCONNECT datagram or a keep-alive timeout the
\* phase is closing or closed and exactly one disconnect event has been
\* emitted; a local close() call leaves the phase closing or closed and emits
\* no event.
C6_PeerAndTimeoutEmitCloseDoesNot ==
  /\ (PeerDisconnectRan \/ TimeoutTickRan) =>
       /\ state \in {"closing", "closed"}
       /\ Cardinality(DisconnectEvents) = 1
  /\ last.op = "close" =>
       /\ state \in {"closing", "closed"}
       /\ last.emitted = <<>>

\* A peer DISCONNECT handled while a local close() waits for its send to
\* complete: the close emitted nothing, the datagram emits the one event.
C6_Witness ==
  /\ PeerDisconnectRan
  /\ last.before = "closing"
  /\ state = "closing"
  /\ disconnectSent
  /\ last.emitted = <<[type |-> "disconnect", reason |-> "server"]>>
  /\ Cardinality(DisconnectEvents) = 1

\* C7: a tick that finds the phase connected and now - lastInbound >= 8000
\* emits disconnect(timeout) once, leaves the phase closed and the socket
\* closed, and hands no datagram to the socket (no keep-alive, confirmation,
\* channel or DISCONNECT datagram; none can follow on the closed socket); a
\* tick with now - lastInbound < 8000 emits no disconnect event.
C7_KeepAliveTimeout ==
  /\ TimeoutTickRan =>
       /\ state = "closed"
       /\ last.sent = <<>>
       /\ last.emitted = <<[type |-> "disconnect", reason |-> "timeout"]>>
       /\ socket.closed = 1
  /\ (last.op = "tick" /\ now - lastInbound < KEEP_ALIVE_TIMEOUT_MS) =>
       \A i \in DOMAIN last.emitted : last.emitted[i].type # "disconnect"

\* C8: a tick that finds the phase awaitingServer or connected and no
\* datagram received for KEEP_ALIVE_TIMEOUT_MS closes the connection.
C8_SilenceEndsSession ==
  ( /\ last.op = "tick"
    /\ last.before \in {"awaitingServer", "connected"}
    /\ now - lastInbound >= KEEP_ALIVE_TIMEOUT_MS ) => state = "closed"

\* C9: a close() call that finds the phase closing or closed changes no field
\* of the connection, its channels, the socket, the owed completions or the
\* events, and sends nothing; at most one DISCONNECT datagram is ever handed
\* to the socket; a close() call with notify = false sends nothing.
C9_CloseIdempotent ==
  /\ [][ (last'.op = "close" /\ state \in {"closing", "closed"}) =>
           /\ UNCHANGED <<connFields, envVars, sendChannels, receiveChannels>>
           /\ last'.sent = <<>> ]_vars
  /\ [](socket.disconnects <= 1)
  /\ []((last.op = "close" /\ last.arg = FALSE) => last.sent = <<>>)

\* A second close(), asking to notify, made while the DISCONNECT of the first
\* is still on its way.
C9_Witness ==
  /\ last.op = "close"
  /\ last.arg = TRUE
  /\ last.before = "closing"
  /\ socket.disconnects = 1
  /\ callbacks # <<>>

\* C10: the socket is closed at most once, and exactly once when the phase is
\* closed, with both timers cancelled; a closed socket stays with phase
\* closed; a completion callback that finds the phase closed changes nothing;
\* and, the socket reporting every completion, phase closing leads to closed.
C10_TeardownOnce ==
  /\ [](socket.closed <= 1)
  /\ [](state = "closed" =>
          (tickTimer = None /\ playerStateTimer = None /\ socket.closed = 1))
  /\ [](socket.closed = 1 => state = "closed")
  /\ [][ (last'.op = "sendCompletion" /\ state = "closed") =>
           UNCHANGED <<connFields, sendChannels, receiveChannels, socket,
                       events>> ]_vars
  /\ (state = "closing") ~> (state = "closed")

\* The completion callback ran finalize after another close had already
\* finalized: the socket is still closed once.
C10_Witness ==
  /\ last.op = "sendCompletion"
  /\ last.before = "closed"
  /\ state = "closed"
  /\ socket.closed = 1
  /\ callbacks = <<>>

-----------------------------------------------------------------------------
(* The channel handshake: INIT datagrams of every shape, and sequenced
   datagrams before and after them *)

OtherConnectionId == <<0, 0, 7, 7, 7, 7, 7, 7>>
OtherSequences ==
  (CHANNEL_LOSSY :> -5) @@ (CHANNEL_FAST :> Int32Max) @@ (CHANNEL_SLOW :> 0)

\* What a peer advertises in a long INIT: its connection id, its three
\* initial sequences, and whatever trails them.
LongInits ==
  { [id |-> RemoteConnectionId, sequences |-> RemoteSequences, extra |-> <<>>],
    [id |-> OtherConnectionId, sequences |-> OtherSequences, extra |-> <<255>>] }

InitDatagram(init) ==
  <<CHANNEL_INIT>> \o init.id
    \o writeInt32BE(init.sequences[CHANNEL_LOSSY])
    \o writeInt32BE(init.sequences[CHANNEL_FAST])
    \o writeInt32BE(init.sequences[CHANNEL_SLOW])
    \o init.extra

\* A sequenced datagram of one whole frame on the LOSSY channel.
RemoteLossyData ==
  <<CHANNEL_LOSSY>> \o writeInt32BE(RemoteSequences[CHANNEL_LOSSY])
    \o <<PROTOCOL_CHAT>> \o encodeVarIntMsbFirst(1) \o <<104>>

HandshakeDatagrams ==
  {InitDatagram(init) : init \in LongInits}
    \cup { <<CHANNEL_INIT>> \o connectionId,       \* the peer's INIT ack
           SubSeq(RemoteInit, 1, 20),             \* a truncated long INIT
           RemoteServerData,
           RemoteLossyData,
           SubSeq(RemoteServerData, 1, 4) }       \* too short to parse

HandshakeMessage ==
  /\ socket.bound
  /\ socket.closed = 0
  /\ \E buffer \in HandshakeDatagrams :
       /\ buffer[1] \in DOMAIN receiveChannels =>
            Len(pendingConfirmations) < MaxPendingConfirmations
       /\ Ran("message", buffer, connectionHandlePacket(This, buffer))

HandshakeNext ==
  \/ Start
  \/ Tick
  \/ HandshakeMessage
  \/ Close
  \/ SendCompletion
  \/ Clock

SpecHandshake == Init /\ [][HandshakeNext]_vars

InitRan ==
  last.op = "message" /\ last.arg # <<>> /\ last.arg[1] = CHANNEL_INIT

HandshakeFrame ==
  <<PROTOCOL_HANDSHAKE>>
    \o encodeVarInt(Len(buildHandshakePayload(name, version)))
    \o buildHandshakePayload(name, version)

C11_Transition ==
  \A init \in LongInits :
    (InitRan /\ last.arg = InitDatagram(init)
       /\ last.before = "awaitingServer") =>
      /\ state = "connected"
      /\ remoteConnectionId = Some(init.id)
      /\ DOMAIN receiveChannels = {CHANNEL_LOSSY, CHANNEL_FAST, CHANNEL_SLOW}
      /\ \A id \in DOMAIN receiveChannels :
           receiveChannels[id] = ReceiveChannel(id, init.sequences[id])
      /\ last.sent = << <<CHANNEL_INIT>> \o connectionId >>
      /\ Len(last.sent[1]) = 9
      /\ last.emitted = << [type |-> "connected"] >>
      /\ sendChannels[CHANNEL_FAST].pendingMessages = <<HandshakeFrame>>
      /\ handshakeQueued

C11_QueuedOnce ==
  /\ handshakeQueued => handshakeQueued'
  /\ Len(sendChannels'[CHANNEL_FAST].pendingMessages)
       > Len(sendChannels[CHANNEL_FAST].pendingMessages)
       => ~handshakeQueued /\ handshakeQueued'

\* C11: in awaitingServer a long INIT (21 bytes or more) records the remote
\* connection id, creates the three receive channels expecting the advertised
\* LOSSY, FAST and SLOW sequences, sends the 9-byte INIT ack, queues one
\* handshake frame on the FAST send channel, emits connected and makes the
\* phase connected; a frame is added to the FAST queue only by the one step
\* that sets handshakeQueued, which is never reset.
C11_HandshakeTransition == []C11_Transition /\ [][C11_QueuedOnce]_vars

C11_Witness ==
  /\ InitRan
  /\ Len(last.arg) = 22
  /\ last.before = "awaitingServer"
  /\ state = "connected"
  /\ sendChannels[CHANNEL_FAST].pendingMessages = <<HandshakeFrame>>

\* C12: in connected an INIT datagram of any shape changes nothing but
\* lastInbound: the remote connection id, the receive channels, the send
\* channels, the phase and the events stay as they were and nothing is sent.
C12_InitIgnoredWhenConnected ==
  [][ (state = "connected" /\ last'.op = "message" /\ last'.arg # <<>>
         /\ last'.arg[1] = CHANNEL_INIT)
      => /\ UNCHANGED <<state, remoteConnectionId, receiveChannels,
                        sendChannels, events, pendingConfirmations>>
         /\ last'.sent = <<>> ]_vars

\* C13: while no long INIT has been received, a sequenced datagram creates no
\* receive channel, queues no confirmation, emits no event and sends nothing;
\* no field but lastInbound keeps a trace of it, so nothing of it can be
\* delivered later.
C13_EarlySequencedDropped ==
  [][ (remoteConnectionId = None /\ last'.op = "message" /\ last'.arg # <<>>
         /\ last'.arg[1] \in {CHANNEL_LOSSY, CHANNEL_FAST, CHANNEL_SLOW})
      => /\ receiveChannels' = <<>>
         /\ pendingConfirmations' = <<>>
         /\ last'.sent = <<>>
         /\ last'.emitted = <<>>
         /\ UNCHANGED <<state, remoteConnectionId, handshakeComplete,
                        sendChannels, lastKeepAliveSent, lastInitSent,
                        tickTimer, playerStateTimer, lastPlayerStateSent,
                        disconnectSent, disconnectEmitted, initSent,
                        handshakeQueued, envVars>>
    ]_vars

C13_Witness ==
  /\ last.op = "message"
  /\ last.arg = RemoteServerData
  /\ remoteConnectionId = None
  /\ receiveChannels = <<>>
  /\ socket.bound

-----------------------------------------------------------------------------
(* SendChannel at the MTU allowance: frames of MTU - 5 bytes, a few bytes
   fewer and a few bytes more *)

MaxMtuQueued == 2
MtuSpread == 2

\* Bodies whose frame (protocol id, two-byte size, body) is within MtuSpread
\* bytes of the allowance.
MtuBodies == {Body(MTU - 5 - 3 + d) : d \in -MtuSpread..MtuSpread}

MtuQueue ==
  /\ Len(queued) < MaxMtuQueued
  /\ \E p \in ProtocolIds, b \in MtuBodies :
       /\ sendChannels' = [sendChannels EXCEPT ![CHANNEL_FAST] = queue(@, p, b)]
       /\ queued' = Append(queued, [protocolId |-> p, payload |-> b])
       /\ last' = [op |-> "queue"]
  /\ UNCHANGED <<connFields, envVars, receiveChannels, now, wire, passed,
                 delivered>>

MtuNext == MtuQueue \/ SendGetPacket \/ SendClock

SpecMtu == SendInit /\ [][MtuNext]_vars

\* The number of bytes of the size varint of a body of n bytes.
SizeLength(n) ==
  IF n < 128 THEN 1 ELSE IF n < 16384 THEN 2 ELSE IF n < 2097152 THEN 3
  ELSE IF n < 268435456 THEN 4 ELSE 5

\* The last getPacket took a frame from the pending queue: it returned a
\* first transmission or threw.
TookPending ==
  /\ last.op = "getPacket"
  /\ last.threw \/ (last.packet # None /\ ~last.packet[1].resend)

\* C14: getPacket emits a pending frame of at most MTU - 5 = 543 bytes
\* (protocol id, size varint and body) whole, and throws for a frame of 544
\* bytes or more.
C14_MtuBoundary ==
  TookPending =>
    LET taken    == queued[Len(queued) - Len(TheSend.pendingMessages)].payload
        frameLen == 1 + SizeLength(Len(taken)) + Len(taken)
    IN  /\ frameLen <= 543 =>
             /\ ~last.threw
             /\ last.packet # None
             /\ Len(last.packet[1].payload) = frameLen
        /\ frameLen >= 544 => last.threw /\ last.packet = None

C14_Witness ==
  /\ TookPending
  /\ last.threw
  /\ queued[Len(queued)].payload = Body(541)
  /\ \E p \in wire : Len(p.payload) = 543

-----------------------------------------------------------------------------
(* Confirmation batching: the peer sends a burst of sequenced datagrams while
   the tick timer fires at any point of it *)

MaxBurst == 20
MaxConfirmClock == 2

\* The k-th datagram of the burst: a retransmission of data the channel has
\* already passed, on the three channels in turn, each with its own start.
BurstDatagram(k) ==
  LET channelId == SequencedChannels[(k % 3) + 1]
  IN  <<channelId>> \o writeInt32BE(addSeq(RemoteSequences[channelId], -k))
        \o <<PROTOCOL_CHAT>>

ConfirmMessage ==
  /\ socket.bound
  /\ socket.closed = 0
  /\ Cardinality(passed) < MaxBurst
  /\ LET buffer == IF remoteConnectionId = None THEN RemoteInit
                   ELSE BurstDatagram(Cardinality(passed) + 1)
     IN  /\ Handled("message", buffer, connectionHandlePacket(This, buffer))
         /\ passed' = IF remoteConnectionId = None THEN passed
                      ELSE passed \cup {buffer}
  /\ UNCHANGED <<now, queued, wire, delivered>>

ConfirmClock ==
  /\ \E t \in 1..MaxConfirmClock : t > now /\ now' = t
  /\ last' = [op |-> "clock"]
  /\ UNCHANGED <<connFields, envVars, sendChannels, receiveChannels, queued,
                 wire, passed, delivered>>

ConfirmNext ==
  \/ Start
  \/ Tick
  \/ ConfirmMessage
  \/ ConfirmClock

SpecConfirm == Init /\ [][ConfirmNext]_vars

\* The CONFIRMATION datagrams among those a handler handed to the socket.
Confirmations(sent) ==
  SelectSeq(sent, LAMBDA d : d[1] = CHANNEL_CONFIRMATION)

C15_Tick ==
  last'.op = "tick" =>
    LET conf == Confirmations(last'.sent)
        n    == IF Len(pendingConfirmations) < 16
                  THEN Len(pendingConfirmations) ELSE 16
    IN  /\ Len(conf) <= 1
        /\ n > 0 /\ last' # last => Len(conf) = 1
        /\ Len(conf) = 1 =>
             /\ n > 0
             /\ Len(conf[1]) = 1 + 7 * n
             /\ \A i \in 1..n :
                  /\ conf[1][7 * (i - 1) + 2] = pendingConfirmations[i].channelId
                  /\ SubSeq(conf[1], 7 * (i - 1) + 5, 7 * (i - 1) + 8)
                       = writeInt32BE(pendingConfirmations[i].start)
             /\ pendingConfirmations'
                  = SubSeq(pendingConfirmations, n + 1, Len(pendingConfirmations))

\* C15: a tick sends at most one CONFIRMATION datagram; it carries the first
\* min(16, pending) entries of the pending confirmations in the order they
\* were queued, seven bytes each after the leading byte, and the rest stay
\* queued: of 20 pending, 16 go out in 113 bytes and 4 remain.
C15_ConfirmationBatching == [][C15_Tick]_vars

C15_Witness ==
  /\ last.op = "tick"
  /\ Len(Confirmations(last.sent)) = 1
  /\ Len(Confirmations(last.sent)[1]) = 113
  /\ Len(pendingConfirmations) = 4
  /\ Cardinality(passed) = 20

-----------------------------------------------------------------------------
(* The wire codec as pure functions: an input is drawn, then the function it
   is meant for is applied to it *)

VarIntSpread == 2
MaxVarIntBytes == 6
SeqSpread == 2
MaxPacketRest == 5

\* Numbers around every change of the encoded length, and the largest.
VarIntValues ==
  {0} \cup UNION {{128 ^ j - d, 128 ^ j + d - 1} :
                    j \in 1..4, d \in 1..VarIntSpread + 1}
      \cup {Int32Max - d : d \in 0..VarIntSpread}

RECURSIVE SeqsUpTo(_, _)
SeqsUpTo(S, n) ==
  IF n = 0 THEN {<<>>}
  ELSE LET shorter == SeqsUpTo(S, n - 1)
       IN  shorter \cup {Append(b, x) : b \in shorter, x \in S}

\* Byte strings read as a varint: with and without the continuation bit.
VarIntStrings == SeqsUpTo({0, 127, 128, 255}, MaxVarIntBytes) \ {<<>>}

SeqValues ==
  UNION {{Int32Min + k, -1 - k, k, Int32Max - k} : k \in 0..SeqSpread}
SeqDeltas ==
  UNION {{k, 1073741824 - k, Int32Max - 1 - k} : k \in 0..SeqSpread}

PacketBuffers ==
  {<<>>} \cup {<<id>> \o rest : id \in 0..7,
                                rest \in SeqsUpTo({0, 128, 255}, MaxPacketRest)}

CodecInputs ==
  {[kind |-> "number", n |-> n] : n \in VarIntValues}
    \cup {[kind |-> "bytes", bytes |-> b] : b \in VarIntStrings}
    \cup {[kind |-> "sequence", a |-> a, delta |-> d] :
            a \in SeqValues, d \in SeqDeltas}
    \cup {[kind |-> "datagram", buffer |-> b] : b \in PacketBuffers}

CodecInit ==
  /\ now = 0
  /\ ConstructedFields
  /\ sendChannels = <<>>
  /\ receiveChannels = <<>>
  /\ queued = <<>>
  /\ wire = {}
  /\ passed = {}
  /\ delivered = <<>>
  /\ \E input \in CodecInputs : last = [op |-> "input", input |-> input]

CodecApplied(result) ==
  /\ last' = result
  /\ UNCHANGED <<connFields, envVars, sendChannels, receiveChannels, now,
                 queued, wire, passed, delivered>>

\* Both variants of the codec encode n and decode what they encoded.
EncodeDecode ==
  /\ last.op = "input" /\ last.input.kind = "number"
  /\ LET n == last.input.n
     IN  CodecApplied(
           [op         |-> "encodeDecode",
            n          |-> n,
            encoded    |-> encodeVarInt(n),
            decoded    |-> decodeVarInt(encodeVarInt(n), 0),
            encodedMsb |-> encodeVarIntMsbFirst(n),
            decodedMsb |-> decodeVarIntMsbFirst(encodeVarIntMsbFirst(n), 0)])

\* Both decoders read the bytes as a varint; a ReceiveChannel that holds a
\* protocol byte followed by the bytes looks for a header.
Decode ==
  /\ last.op = "input" /\ last.input.kind = "bytes"
  /\ LET bytes == last.input.bytes
     IN  CodecApplied(
           [op      |-> "decode",
            bytes   |-> bytes,
            decoded |-> decodeVarInt(bytes, 0),
            decodedMsb |-> decodeVarIntMsbFirst(bytes, 0),
            header  |-> peekHeader(enqueueChunk(ReceiveChannel(CHANNEL_FAST, 0),
                                                <<PROTOCOL_CHAT>> \o bytes))])

\* addSeq(a, delta + 1) and the comparisons of a with it and with itself.
\* delta + 1 = 2^31 is formed as Int32Max and then 1, the same sum in 32 bits.
SequenceArithmetic ==
  /\ last.op = "input" /\ last.input.kind = "sequence"
  /\ LET a     == last.input.a
         delta == last.input.delta
         next  == IF delta = Int32Max THEN addSeq(addSeq(a, Int32Max), 1)
                                      ELSE addSeq(a, delta + 1)
     IN  CodecApplied(
           [op       |-> "sequence",
            a        |-> a,
            delta    |-> delta,
            sum      |-> addSeq(a, delta),
            next     |-> next,
            less     |-> seqLessThan(a, next),
            lessSelf |-> seqLessThan(a, a)])

ParsePacket ==
  /\ last.op = "input" /\ last.input.kind = "datagram"
  /\ CodecApplied([op     |-> "parseChannelPacket",
                   buffer |-> last.input.buffer,
                   result |-> parseChannelPacket(last.input.buffer)])

CodecNext == EncodeDecode \/ Decode \/ SequenceArithmetic \/ ParsePacket

SpecCodec == CodecInit /\ [][CodecNext]_vars

\* C16: for every n from 0 to 2^31 - 1, decodeVarInt(encodeVarInt(n)) is n
\* with a consumed count equal to the length of the encoding, which is 1 to 5
\* bytes long; in both variants of the codec.
C16_VarIntRoundTrip ==
  last.op = "encodeDecode" =>
    /\ Len(last.encoded) \in 1..5
    /\ last.decoded = [kind |-> "value", value |-> last.n,
                       consumed |-> Len(last.encoded)]
    /\ Len(last.encodedMsb) \in 1..5
    /\ last.decodedMsb = [kind |-> "value", value |-> last.n,
                          consumed |-> Len(last.encodedMsb)]

C16_Witness ==
  /\ last.op = "encodeDecode"
  /\ last.n = Int32Max
  /\ Len(last.encoded) = 5
  /\ last.decoded.kind = "value"
  /\ last.decodedMsb.kind = "value"

EndsAt(bytes, k) ==
  /\ k <= Len(bytes)
  /\ bytes[k] < 128
  /\ \A i \in 1..(k - 1) : bytes[i] >= 128

\* C18: a size varint whose first five bytes all have the continuation bit set
\* is rejected as too large by both decodeVarInt variants and, once the byte
\* after the fifth is buffered, by the header parser of ReceiveChannel; one
\* that ends within five bytes is accepted by all three with that length.
C18_FifthContinuationRejected ==
  last.op = "decode" =>
    /\ (Len(last.bytes) >= 5 /\ \A i \in 1..5 : last.bytes[i] >= 128) =>
         /\ last.decoded = [kind |-> "throw", error |-> "value too large"]
         /\ last.decodedMsb = [kind |-> "throw", error |-> "value too large"]
         /\ Len(last.bytes) >= 6 => last.header.kind = "throw"
    /\ \A k \in 1..5 :
         EndsAt(last.bytes, k) =>
           /\ last.decoded.kind = "value" /\ last.decoded.consumed = k
           /\ last.decodedMsb.kind = "value" /\ last.decodedMsb.consumed = k
           /\ last.header.kind = "header" /\ last.header.headerLength = 1 + k

\* The big-endian signed 32-bit number of four bytes.
BigEndianInt32(b) ==
  LET low == (b[1] % 128) * 16777216 + b[2] * 65536 + b[3] * 256 + b[4]
  IN  IF b[1] >= 128 THEN (low - Int32Max) - 1 ELSE low

\* C19: parseChannelPacket throws for a datagram that leads with a control
\* channel id (3, 4, 5 or 6) or is shorter than 5 bytes, and for a leading
\* byte 0, 1 or 2 and 5 bytes or more returns the channel id, the big-endian
\* signed start at offset 1 and the bytes from offset 5.
C19_ParseChannelPacket ==
  last.op = "parseChannelPacket" =>
    /\ (Len(last.buffer) < 5
          \/ last.buffer[1] \in {CHANNEL_CONFIRMATION, CHANNEL_INIT,
                                 CHANNEL_KEEP_ALIVE, CHANNEL_DISCONNECT})
         => last.result.kind = "throw"
    /\ (Len(last.buffer) >= 5
          /\ last.buffer[1] \in {CHANNEL_LOSSY, CHANNEL_FAST, CHANNEL_SLOW})
         => last.result =
              [kind      |-> "packet",
               channelId |-> last.buffer[1],
               start     |-> BigEndianInt32(SubSeq(last.buffer, 2, 5)),
               payload   |-> SubSeq(last.buffer, 6, Len(last.buffer))]

-----------------------------------------------------------------------------
(* The out-of-order reassembly scenario: a channel expecting 0 is passed the
   three packets of the scenario, and one that fills the gap they leave, in
   any order and with repetitions *)

PacketAt10 == [start |-> 10, payload |-> <<221, 238>>]
PacketAt0  == [start |-> 0, payload |-> <<7, 4, 170, 187>>]
PacketAt4  == [start |-> 4, payload |-> <<204, 221, 0, 0>>]
PacketAt8  == [start |-> 8, payload |-> <<9, 2>>]

ScenarioPackets == {PacketAt10, PacketAt0, PacketAt4, PacketAt8}

ScenarioInit ==
  /\ now = 0
  /\ ConstructedFields
  /\ sendChannels = <<>>
  /\ receiveChannels = [c \in {CHANNEL_FAST} |-> ReceiveChannel(c, 0)]
  /\ queued = <<>>
  /\ wire = {}
  /\ passed = {}
  /\ delivered = <<>>
  /\ last = NoCall

\* One handlePacket call; queued keeps the packets passed so far, in order.
ScenarioHandlePacket ==
  /\ RecvCalls < MaxCalls
  /\ \E pkt \in ScenarioPackets :
       /\ CallHandlePacket(pkt.start, pkt.payload)
       /\ queued' = Append(queued, pkt)
  /\ UNCHANGED <<connFields, envVars, sendChannels, now, wire>>

ScenarioNext == ScenarioHandlePacket

SpecScenario == ScenarioInit /\ [][ScenarioNext]_vars

Scenario == <<PacketAt10, PacketAt0, PacketAt4>>

\* C20: after (10, [DD,EE]), (0, [07,04,AA,BB]) and (4, [CC,DD,00,00]) the
\* channel has yielded one message of protocol 7 with the payload
\* [AA,BB,CC,DD,00,00], and a chunk stays buffered.
C20_ScenarioYieldsSixBytes ==
  queued = Scenario =>
    /\ delivered = << [protocolId |-> 7,
                       payload    |-> <<170, 187, 204, 221, 0, 0>>] >>
    /\ TheRecv.pending # <<>> \/ TheRecv.bufferedLength > 0

\* C20, as the code frames the bytes: the size byte 04 ends the payload after
\* [AA,BB,CC,DD]; the bytes 00 00 that follow are a frame of protocol 0 with
\* an empty payload; the packet at 10 waits in pending for the bytes 8 and 9.
\* Nothing is yielded before the third packet.
C20_ScenarioYieldsFramedMessages ==
  /\ queued \in {SubSeq(Scenario, 1, 1), SubSeq(Scenario, 1, 2)} =>
       delivered = <<>>
  /\ queued = Scenario =>
       /\ delivered = << [protocolId |-> 7,
                          payload    |-> <<170, 187, 204, 221>>],
                         [protocolId |-> 0, payload |-> <<>>] >>
       /\ last.messages = delivered
       /\ TheRecv.expected = 8
       /\ TheRecv.pending = (10 :> <<221, 238>>)
       /\ TheRecv.bufferedLength = 0
       /\ TheRecv.partialHeader = None

C20_Witness ==
  /\ queued = Scenario
  /\ last.op = "handlePacket"
  /\ last.start = 4
  /\ Len(delivered) = 2

-----------------------------------------------------------------------------
(* SendChannel with its history: what was queued, which frames getPacket
   emitted fresh and in which order, and which emitted starts have been
   acknowledged since *)

MaxLogQueued == 3
MaxLogClock == 2

\* Frames of 2 and 3 bytes, and one that exceeds the MTU allowance.
LogBodies == {Body(0), Body(1), Body(MTU - 5)}

LogClockPoints ==
  UNION {{k * RESEND_TIMEOUT_MS - 1, k * RESEND_TIMEOUT_MS} : k \in 1..MaxLogClock}

\* The starts of the frames emitted fresh so far.
EmittedStarts == {delivered[i].start : i \in 1..Len(delivered)}

LogQueue ==
  /\ Len(queued) < MaxLogQueued
  /\ \E p \in ProtocolIds, b \in LogBodies :
       /\ sendChannels' = [sendChannels EXCEPT ![CHANNEL_FAST] = queue(@, p, b)]
       /\ queued' = Append(queued, [protocolId |-> p, payload |-> b])
       /\ last' = [op |-> "queue"]
  /\ UNCHANGED <<connFields, envVars, receiveChannels, now, wire, passed,
                 delivered>>

\* getPacket(now); delivered keeps the fresh packets in the order of their
\* emission, wire everything that was returned.
LogGetPacket ==
  LET r == getPacket(TheSend, now) IN
  /\ hasWork(TheSend)
  /\ sendChannels' = [sendChannels EXCEPT ![CHANNEL_FAST] = r.channel]
  /\ wire' = wire \cup {[start |-> p.start, payload |-> p.payload] :
                          p \in {r.packet[i] : i \in 1..Len(r.packet)}}
  /\ delivered' = IF r.packet # None /\ ~r.packet[1].resend
                    THEN Append(delivered, [start   |-> r.packet[1].start,
                                            payload |-> r.packet[1].payload])
                    ELSE delivered
  /\ last' = [op |-> "getPacket", packet |-> r.packet, threw |-> r.threw,
              at |-> now]
  /\ UNCHANGED <<connFields, envVars, receiveChannels, now, queued, passed>>

\* The starts a peer may acknowledge: those of the frames emitted so far and,
\* ahead of its emission, that of the next frame.
LogAckStarts == EmittedStarts \cup {TheSend.nextIndex}

\* handleAck(start); passed keeps the starts acknowledged after their frame
\* was emitted, and last whether the call found a zero entry for the start,
\* left by a call that came before the frame.
LogHandleAck ==
  /\ \E s \in LogAckStarts :
       /\ sendChannels' = [sendChannels EXCEPT ![CHANNEL_FAST] = handleAck(@, s)]
       /\ passed' = IF s \in EmittedStarts THEN passed \cup {s} ELSE passed
       /\ last' = [op |-> "handleAck", start |-> s,
                   early |-> MapHas(TheSend.acked, s) /\ TheSend.acked[s] = 0]
  /\ UNCHANGED <<connFields, envVars, receiveChannels, now, queued, wire,
                 delivered>>

LogClock ==
  /\ \E t \in LogClockPoints :
       /\ t > now
       /\ now' = t
  /\ last' = [op |-> "clock"]
  /\ UNCHANGED <<connFields, envVars, sendChannels, receiveChannels, queued,
                 wire, passed, delivered>>

LogNext == LogQueue \/ LogGetPacket \/ LogHandleAck \/ LogClock

SpecSendLog == SendInit /\ [][LogNext]_vars

\* The number of bytes emitted fresh so far.
RECURSIVE TotalLength(_)
TotalLength(packets) ==
  IF packets = <<>> THEN 0
  ELSE Len(Head(packets).payload) + TotalLength(Tail(packets))

InFlightStarts(ch) == {ch.inFlight[i].start : i \in 1..Len(ch.inFlight)}

C21_State ==
  TheSend.initialSequence = Int32Max - 2 =>
    \* three bytes fill the positive range; the next index is then negative
    /\ TotalLength(delivered) >= 3 =>
         TheSend.nextIndex = Int32Min + (TotalLength(delivered) - 3)
    \* a start survives the wire: writeInt32BE by the sender of the
    \* datagram, readInt32BE by the reader of the confirmation
    /\ \A s \in EmittedStarts : readInt32BE(writeInt32BE(s), 0) = s
    /\ (InFlightStarts(TheSend) = {} /\ passed = EmittedStarts) =>
         TheSend.fullyConfirmed = TheSend.nextIndex

C21_Ack ==
  (TheSend.initialSequence = Int32Max - 2 /\ last'.op = "handleAck"
     /\ last'.start \in InFlightStarts(TheSend)) =>
    /\ last'.start \notin InFlightStarts(TheSend')
    /\ last'.start \in passed'

\* C21: a SendChannel that starts three bytes below 2^31 emits frames across
\* the boundary: nextIndex wraps into the negative range, every emitted start
\* is acknowledged by handleAck with the start as the wire carries it, and
\* once all are acknowledged fullyConfirmed equals nextIndex.
C21_SendWraparound == []C21_State /\ [][C21_Ack]_vars

C21_Witness ==
  /\ TheSend.initialSequence = Int32Max - 2
  /\ Len(delivered) = 3
  /\ delivered[2].start > 0
  /\ delivered[3].start < 0
  /\ passed = EmittedStarts
  /\ TheSend.inFlight = <<>>
  /\ TheSend.nextIndex < 0
  /\ TheSend.fullyConfirmed = TheSend.nextIndex

\* C22: after any queue, getPacket and handleAck calls every in-flight start s
\* satisfies fullyConfirmed <= s < nextIndex under the signed sequence
\* comparison.
C22_InFlightWithinWindow ==
  \A s \in InFlightStarts(TheSend) :
    /\ ~seqLessThan(s, TheSend.fullyConfirmed)
    /\ seqLessThan(s, TheSend.nextIndex)

C22_Witness ==
  /\ Len(TheSend.inFlight) = 1
  /\ TheSend.inFlight[1].start < 0
  /\ TheSend.initialSequence > 0
  /\ TheSend.fullyConfirmed = TheSend.inFlight[1].start
  /\ last.op = "handleAck"

\* C23: after any queue, getPacket and handleAck calls, also when a start is
\* acknowledged before its frame is emitted, no start is a key of both
\* inFlight and acked.
C23_InFlightAckedDisjoint ==
  InFlightStarts(TheSend) \cap DOMAIN TheSend.acked = {}

\* The sequence number reached from base after the packets, in 32 bits.
RECURSIVE After(_, _)
After(base, packets) ==
  IF packets = <<>> THEN base
  ELSE After(addSeq(base, Len(Head(packets).payload)), Tail(packets))

\* The frames of the queued messages that fit the MTU allowance, in queue
\* order.
RECURSIVE FittingFrames(_)
FittingFrames(messages) ==
  IF messages = <<>> THEN <<>>
  ELSE LET m     == Head(messages)
           frame == <<m.protocolId>> \o encodeVarInt(Len(m.payload)) \o m.payload
       IN  (IF Len(frame) <= MTU - 5 THEN <<frame>> ELSE <<>>)
             \o FittingFrames(Tail(messages))

C24_State ==
  /\ TheSend.nextIndex = After(TheSend.initialSequence, delivered)
  /\ \A k \in 1..Len(delivered) :
       /\ delivered[k].start
            = After(TheSend.initialSequence, SubSeq(delivered, 1, k - 1))
       /\ delivered[k].payload = FittingFrames(queued)[k]

C24_Step ==
  \/ TheSend'.nextIndex = TheSend.nextIndex
  \/ /\ last'.op = "getPacket"
     /\ ~last'.threw
     /\ last'.packet # None
     /\ ~last'.packet[1].resend
     /\ last'.packet[1].start = TheSend.nextIndex
     /\ TheSend'.nextIndex
          = addSeq(TheSend.nextIndex, Len(last'.packet[1].payload))

\* C24: nextIndex is the initial sequence plus the lengths of the frames
\* emitted fresh, in 32 bits; each fresh packet starts where the one before
\* it ended, in queue order; nextIndex changes in no step but a fresh
\* emission (not in a resend, a refused oversize frame or a handleAck).
C24_NextIndexIsSumOfEmitted == []C24_State /\ [][C24_Step]_vars

C24_Witness ==
  /\ last.op = "getPacket"
  /\ last.threw
  /\ Len(delivered) = 2
  /\ delivered[2].start < 0
  /\ TheSend.initialSequence > 0
  /\ \E i \in 1..Len(TheSend.inFlight) : TheSend.inFlight[i].retries >= 1

\* C25: after any handlePacket calls, with any starts and payload lengths
\* (overlapping byte ranges included), every key of pending is at or after
\* expected under the signed sequence comparison.
C25_PendingNotBehindExpected ==
  \A key \in DOMAIN TheRecv.pending : ~seqLessThan(key, TheRecv.expected)

\* The in-flight entries whose last transmission is RESEND_TIMEOUT_MS old.
Due(ch, t) ==
  {i \in 1..Len(ch.inFlight) : t - ch.inFlight[i].timestamp >= 500}

\* The in-flight entry i was returned as a resend by the getPacket step.
Resent(i) ==
  /\ last'.packet = Some([start   |-> TheSend.inFlight[i].start,
                          payload |-> TheSend.inFlight[i].payload,
                          resend  |-> TRUE])
  /\ ~last'.threw
  /\ TheSend'.inFlight =
       [TheSend.inFlight EXCEPT ![i].retries = @ + 1, ![i].timestamp = now]

\* No in-flight entry that is not due is returned; with nothing due and
\* nothing pending the call returns none.
NotBeforeTimeout ==
  /\ \A i \in (1..Len(TheSend.inFlight)) \ Due(TheSend, now) :
       last'.packet # None /\ last'.packet[1].resend
         => last'.packet[1].start # TheSend.inFlight[i].start
  /\ (Due(TheSend, now) = {} /\ TheSend.pendingMessages = <<>>) =>
       /\ last'.packet = None
       /\ ~last'.threw
       /\ TheSend' = TheSend

\* C26: an in-flight packet is not returned by getPacket(now) before 500 ms
\* have passed since it was last sent, and every in-flight packet for which
\* they have passed is returned by the call as a resend with the same start
\* and payload, retries one higher and the timestamp set to now, at every
\* retry.
C26_EveryDueEntryResent ==
  [][ last'.op = "getPacket" =>
        /\ NotBeforeTimeout
        /\ \A i \in Due(TheSend, now) : Resent(i) ]_vars

\* C26, as the code has it: of the in-flight packets for which 500 ms have
\* passed the call returns the first in insertion order, and the others wait
\* for a later call.
C26_FirstDueEntryResent ==
  [][ last'.op = "getPacket" =>
        /\ NotBeforeTimeout
        /\ \A i \in Due(TheSend, now) :
             IF \A j \in Due(TheSend, now) : i <= j
               THEN Resent(i)
               ELSE TheSend'.inFlight[i] = TheSend.inFlight[i] ]_vars

C26_Witness ==
  /\ last.op = "getPacket"
  /\ last.at = 2 * RESEND_TIMEOUT_MS
  /\ last.packet # None
  /\ last.packet[1].resend
  /\ Len(TheSend.inFlight) = 2
  /\ TheSend.inFlight[1].retries = 2
  /\ TheSend.inFlight[2].retries = 0
  /\ TheSend.inFlight[1].timestamp = 2 * RESEND_TIMEOUT_MS

-----------------------------------------------------------------------------
(* flushSendQueues over the three SendChannels of a connection: messages are
   queued on any channel and the flush of a tick runs at any time *)

MaxFlushQueued == 3
MaxFlushClock == 1

FlushClockPoints ==
  UNION {{k * RESEND_TIMEOUT_MS - 1, k * RESEND_TIMEOUT_MS} : k \in 1..MaxFlushClock}

FlushQueue ==
  /\ Len(queued) < MaxFlushQueued
  /\ \E id \in DOMAIN sendChannels, p \in ProtocolIds, b \in SendBodies :
       /\ sendChannels' = [sendChannels EXCEPT ![id] = queue(@, p, b)]
       /\ queued' = Append(queued, [channelId |-> id, protocolId |-> p,
                                    payload |-> b])
       /\ last' = [op |-> "queue"]
  /\ UNCHANGED <<connFields, envVars, receiveChannels, now, wire, passed,
                 delivered>>

\* The last statement of tick(): flushSendQueues(now).
FlushTick ==
  /\ socket.closed = 0
  /\ Ran("flushSendQueues", <<>>, flushSendQueues(This, now))

FlushClock ==
  /\ \E t \in FlushClockPoints :
       /\ t > now
       /\ now' = t
  /\ last' = [op |-> "clock"]
  /\ UNCHANGED <<connFields, envVars, sendChannels, receiveChannels, queued,
                 wire, passed, delivered>>

FlushNext == FlushQueue \/ FlushTick \/ FlushClock

SpecFlush == Init /\ [][FlushNext]_vars

\* What the flush of one channel did: the datagrams it handed to the socket
\* for the channel, and the channel before and after.
C27_Channel(id) ==
  LET ch   == sendChannels[id]
      ch2  == sendChannels'[id]
      mine == SelectSeq(last'.sent, LAMBDA d : d[1] = id)
      due  == Due(ch, now)
  IN  /\ Len(mine) <= 1
      /\ due # {} =>
           LET i == CHOOSE i \in due : \A j \in due : i <= j
           IN  /\ mine = << <<id>> \o writeInt32BE(ch.inFlight[i].start)
                              \o ch.inFlight[i].payload >>
               /\ ch2.pendingMessages = ch.pendingMessages
               /\ ch2.nextIndex = ch.nextIndex
               /\ ch2.inFlight = [ch.inFlight EXCEPT ![i].retries = @ + 1,
                                                     ![i].timestamp = now]
      /\ (due = {} /\ ch.pendingMessages # <<>>) =>
           /\ mine = << <<id>> \o writeInt32BE(ch.nextIndex)
                          \o Head(ch.pendingMessages) >>
           /\ ch2.pendingMessages = Tail(ch.pendingMessages)
           /\ Len(ch2.inFlight) = Len(ch.inFlight) + 1
      /\ (due = {} /\ ch.pendingMessages = <<>>) =>
           /\ mine = <<>>
           /\ ch2 = ch

\* C27: a flush hands the socket at most one datagram per SendChannel; if an
\* in-flight entry of the channel is due it is the first due entry in
\* insertion order, sent again, with pendingMessages and nextIndex untouched;
\* a fresh frame is sent only when no in-flight entry is due.
C27_EmissionPolicy ==
  [][ last'.op = "flushSendQueues" =>
        \A id \in DOMAIN sendChannels : C27_Channel(id) ]_vars

C27_Witness ==
  /\ last.op = "flushSendQueues"
  /\ now = RESEND_TIMEOUT_MS
  /\ Len(last.sent) = 1
  /\ \E id \in DOMAIN sendChannels :
       /\ Len(sendChannels[id].inFlight) = 2
       /\ sendChannels[id].inFlight[1].retries = 1
       /\ sendChannels[id].inFlight[2].retries = 0
       /\ sendChannels[id].inFlight[2].timestamp = 0
       /\ sendChannels[id].pendingMessages # <<>>

-----------------------------------------------------------------------------
(* Acknowledgments out of order *)

\* C28: once handleAck has been called, after its emission, for the start of
\* every frame getPacket has emitted, in any order and with any repetitions,
\* inFlight is empty and fullyConfirmed equals nextIndex.
C28_AllAcknowledged ==
  passed = EmittedStarts =>
    /\ TheSend.inFlight = <<>>
    /\ TheSend.fullyConfirmed = TheSend.nextIndex

\* Three frames are acknowledged, and the first again after the frontier
\* has passed it: the repeated call leaves a zero entry behind the frontier.
C28_Witness ==
  /\ Len(delivered) = 3
  /\ passed = EmittedStarts
  /\ last.op = "handleAck"
  /\ last.start = delivered[1].start
  /\ delivered[1].start \in DOMAIN TheSend.acked
  /\ TheSend.fullyConfirmed = TheSend.nextIndex

-----------------------------------------------------------------------------
(* The retransmit timer under ticks that never stop *)

\* setInterval(() => this.tick(), 20): the timer fires every interval, and a
\* tick runs when the event loop is free: here 1, 24 or 25 intervals after
\* the previous tick has run.
TICK_INTERVAL_MS == 20
TickDelays == {1, 24, 25}
TickSteps == {k * TICK_INTERVAL_MS : k \in TickDelays}

MaxResendQueued == 2
MaxRetries == 2

\* The clock of this specification is relative, so that ticks can go on
\* forever in finitely many states: now stays where it is and d elapsed
\* milliseconds move every in-flight timestamp d into the past. getPacket reads
\* a timestamp only in now - timestamp >= RESEND_TIMEOUT_MS, so an age is kept
\* up to RESEND_TIMEOUT_MS; retries is written and never read, and is counted
\* up to MaxRetries.
Elapsed(ch, d) ==
  [ch EXCEPT !.inFlight =
     [i \in DOMAIN @ |->
        [@[i] EXCEPT !.timestamp = Max(@ - d, now - RESEND_TIMEOUT_MS)]]]

Counted(ch) ==
  [ch EXCEPT !.inFlight =
     [i \in DOMAIN @ |-> [@[i] EXCEPT !.retries = Min(@, MaxRetries)]]]

ResendQueue ==
  /\ Len(queued) < MaxResendQueued
  /\ \E p \in ProtocolIds, b \in SendBodies :
       /\ sendChannels' = [sendChannels EXCEPT ![CHANNEL_FAST] = queue(@, p, b)]
       /\ queued' = Append(queued, [protocolId |-> p, payload |-> b])
       /\ last' = [op |-> "queue"]
  /\ UNCHANGED <<connFields, envVars, receiveChannels, now, wire, passed,
                 delivered>>

\* The peer confirms a frame that is in flight.
ResendAck ==
  /\ \E start \in InFlightStarts(TheSend) :
       /\ sendChannels' = [sendChannels EXCEPT
                             ![CHANNEL_FAST] = handleAck(@, start)]
       /\ last' = [op |-> "handleAck", start |-> start]
  /\ UNCHANGED <<connFields, envVars, receiveChannels, now, queued, wire,
                 passed, delivered>>

\* A tick d milliseconds after the previous one: flushSendQueues finds work
\* on the channel and calls getPacket(now). delivered keeps the fresh packets
\* in the order of their emission and passed the parity of the number of
\* ticks, so that a tick is a step even when it leaves the channel as the
\* previous tick left it.
ResendTick ==
  /\ \E d \in TickSteps :
       \E ch \in {Elapsed(TheSend, d)} :
         \E r \in {getPacket(ch, now)} :
           /\ hasWork(ch)
           /\ sendChannels' = [sendChannels EXCEPT
                                 ![CHANNEL_FAST] = Counted(r.channel)]
           /\ delivered' =
                IF r.packet # None /\ ~r.packet[1].resend
                  THEN Append(delivered, [start   |-> r.packet[1].start,
                                          payload |-> r.packet[1].payload])
                  ELSE delivered
           /\ last' = [op |-> "getPacket", packet |-> r.packet,
                       threw |-> r.threw, elapsed |-> d]
  /\ passed' = {0} \ passed
  /\ UNCHANGED <<connFields, envVars, receiveChannels, now, queued, wire>>

ResendNext == ResendQueue \/ ResendAck \/ ResendTick

SpecResend == SendInit /\ [][ResendNext]_vars

\* The timer of start() keeps firing until the connection is closed.
FairSpecResend == SpecResend /\ WF_vars(ResendTick)

\* The n-th frame getPacket emitted is still in flight.
StaysInFlight(n) ==
  /\ Len(delivered) >= n
  /\ delivered[n].start \in InFlightStarts(TheSend)

\* The last getPacket returned the n-th frame again, with resend = true.
ResentNow(n) ==
  /\ Len(delivered) >= n
  /\ last.op = "getPacket"
  /\ last.packet = Some([ start   |-> delivered[n].start,
                          payload |-> delivered[n].payload,
                          resend  |-> TRUE ])

\* C29: while ticks continue, a frame that stays in inFlight without being
\* acknowledged is returned again by getPacket with resend = true infinitely
\* often, however many in-flight entries precede it in insertion order.
C29_EventualResend ==
  \A n \in 1..MaxResendQueued :
    <>[]StaysInFlight(n) => []<>ResentNow(n)

\* Two frames are in flight, both due, and getPacket resends the first.
C29_Witness ==
  /\ Len(TheSend.inFlight) = 2
  /\ Len(delivered) = 2
  /\ ResentNow(1)
  /\ last.elapsed = RESEND_TIMEOUT_MS
  /\ TheSend.inFlight[2].start = delivered[2].start
  /\ now - TheSend.inFlight[2].timestamp >= RESEND_TIMEOUT_MS

-----------------------------------------------------------------------------
(* The INIT of a connection that waits for the server *)

MaxInitClock == 2

\* The instants around each multiple of the resend interval.
InitClockPoints ==
  UNION {{k * INIT_RESEND_INTERVAL_MS - 1, k * INIT_RESEND_INTERVAL_MS} :
           k \in 1..MaxInitClock}

InitClock ==
  /\ \E t \in InitClockPoints : t > now /\ now' = t
  /\ last' = [op |-> "clock"]
  /\ UNCHANGED <<connFields, envVars, sendChannels, receiveChannels, queued,
                 wire, passed, delivered>>

InitNext ==
  \/ Start
  \/ Tick
  \/ HandshakeMessage
  \/ Close
  \/ SendCompletion
  \/ InitClock

SpecInit == Init /\ [][InitNext]_vars

\* The 21 bytes of sendInit(): INIT, the connection id and the initial
\* sequences of the LOSSY, FAST and SLOW send channels.
LocalInit ==
  <<CHANNEL_INIT>> \o connectionId
    \o writeInt32BE(LocalSequences[CHANNEL_LOSSY])
    \o writeInt32BE(LocalSequences[CHANNEL_FAST])
    \o writeInt32BE(LocalSequences[CHANNEL_SLOW])

\* The positions of the long INIT datagrams among those a handler sent.
LongInitsSent(sent) ==
  {i \in 1..Len(sent) :
     Len(sent[i]) > 1 + 8 /\ sent[i][1] = CHANNEL_INIT}

C30_Tick ==
  last'.op = "tick" =>
    LET inits == LongInitsSent(last'.sent) IN
    IF state = "awaitingServer"
         /\ (~initSent \/ now - lastInitSent >= INIT_RESEND_INTERVAL_MS)
      THEN /\ Cardinality(inits) = 1
           /\ \A i \in inits : last'.sent[i] = LocalInit
           /\ Len(LocalInit) = 21
           /\ lastInitSent' = now
      ELSE /\ inits = {}
           /\ lastInitSent' = lastInitSent

\* C30: in awaitingServer a tick sends the 21-byte INIT exactly when none was
\* sent yet or at least INIT_RESEND_INTERVAL_MS have passed since the last
\* one, always with the same connection id and the same three initial
\* sequences; in any other phase a tick sends no long INIT.
C30_InitResend == [][C30_Tick]_vars

\* A tick at 200 ms, the server still silent, sends the INIT again.
C30_Witness ==
  /\ last.op = "tick"
  /\ last.before = "awaitingServer"
  /\ LongInitsSent(last.sent) # {}
  /\ now = 2 * INIT_RESEND_INTERVAL_MS
  /\ lastInitSent = now
  /\ state = "awaitingServer"

-----------------------------------------------------------------------------
(* Inbound sequenced datagrams: in order, ahead, stale, repeated, incomplete
   and undecodable *)

MaxInbound == 5

\* A sequenced datagram of the peer at offset bytes from its initial sequence.
RemoteData(channelId, offset, payload) ==
  <<channelId>> \o writeInt32BE(addSeq(RemoteSequences[channelId], offset))
    \o payload

\* A frame whose size varint never ends: six bytes with the continuation bit.
EndlessSize == <<PROTOCOL_CHAT, 128, 128, 128, 128, 128, 128>>

\* On FAST: a whole frame, a frame in two datagrams, and in place of its
\* first half or after its second half the frame with the endless size; on
\* LOSSY a whole frame.
InboundDatagrams ==
  { RemoteInit,
    RemoteData(CHANNEL_FAST, 0, <<PROTOCOL_CHAT, 1, 65>>),
    RemoteData(CHANNEL_FAST, 3, <<PROTOCOL_CHAT, 2, 66>>),
    RemoteData(CHANNEL_FAST, 6, <<67>>),
    RemoteData(CHANNEL_FAST, 3, EndlessSize),
    RemoteData(CHANNEL_FAST, 7, EndlessSize),
    RemoteData(CHANNEL_LOSSY, 0, <<PROTOCOL_CHAT, 0>>) }

\* The socket's message event; queued keeps the datagrams handled so far.
InboundMessage ==
  /\ socket.bound
  /\ socket.closed = 0
  /\ Len(queued) < MaxInbound
  /\ \E buffer \in InboundDatagrams :
       /\ Handled("message", buffer, connectionHandlePacket(This, buffer))
       /\ queued' = Append(queued, buffer)
  /\ UNCHANGED <<now, wire, passed, delivered>>

InboundNext == Start \/ InboundMessage

SpecInbound == Init /\ [][InboundNext]_vars

\* The step handles a sequenced datagram for a receive channel that exists.
SequencedHandled ==
  /\ last'.op = "message"
  /\ Len(last'.arg) >= 5
  /\ last'.arg[1] \in DOMAIN receiveChannels

ConfirmationOf(buffer) ==
  [channelId |-> buffer[1], start |-> readInt32BE(buffer, 1),
   timestamp |-> now]

C31_EveryDatagram ==
  SequencedHandled =>
    /\ ~last'.threw
    /\ pendingConfirmations' =
         Append(pendingConfirmations, ConfirmationOf(last'.arg))

C31_EveryDecoded ==
  (SequencedHandled /\ ~last'.threw) =>
    pendingConfirmations' =
      Append(pendingConfirmations, ConfirmationOf(last'.arg))

C33_FailedCallWithoutEffect ==
  [][ (SequencedHandled /\ last'.threw) =>
        UNCHANGED <<receiveChannels, pendingConfirmations>> ]_vars

\* The datagram with the endless size arrived in order and the call threw.
C33_Thrown ==
  /\ last.op = "message"
  /\ last.arg = RemoteData(CHANNEL_FAST, 3, EndlessSize)
  /\ last.threw
  /\ receiveChannels[CHANNEL_FAST].expected
       = addSeq(RemoteSequences[CHANNEL_FAST], 10)
  /\ receiveChannels[CHANNEL_FAST].bufferedLength = 7

-----------------------------------------------------------------------------
(* A frame beyond the MTU allowance at the head of a send queue *)

MaxOversizeQueued == 3

\* An empty body, and one that alone exceeds the allowance.
OversizeBodies == {Body(0), Body(MTU - 5)}

OversizeQueue ==
  /\ Len(queued) < MaxOversizeQueued
  /\ \E id \in DOMAIN sendChannels, p \in ProtocolIds, b \in OversizeBodies :
       /\ sendChannels' = [sendChannels EXCEPT ![id] = queue(@, p, b)]
       /\ queued' = Append(queued, [channelId |-> id, protocolId |-> p,
                                    payload |-> b])
       /\ last' = [op |-> "queue"]
  /\ UNCHANGED <<connFields, envVars, receiveChannels, now, wire, passed,
                 delivered>>

OversizeNext == Start \/ OversizeQueue \/ Tick

SpecOversize == Init /\ [][OversizeNext]_vars

\* The datagram flushSendQueues sends for the packet getPacket returns on the
\* channel, if it returns one.
PacketDue(id) ==
  LET r == getPacket(sendChannels[id], now) IN
  IF hasWork(sendChannels[id]) /\ ~r.threw /\ r.packet # None
    THEN Some(<<id>> \o writeInt32BE(r.packet[1].start) \o r.packet[1].payload)
    ELSE None

\* getPacket on the channel refuses the frame at the head of the queue.
HeadOversize(id) ==
  /\ hasWork(sendChannels[id])
  /\ getPacket(sendChannels[id], now).threw

\* C32: the tick that reaches a frame beyond the MTU allowance on one send
\* channel still sends the packets of the other channels, leaves the timer
\* running and leaves the phase as it was.
C32_OversizeIsolated ==
  [][ (last'.op = "tick" /\ \E id \in DOMAIN sendChannels : HeadOversize(id))
      => /\ \A id \in DOMAIN sendChannels :
              PacketDue(id) # None =>
                \E i \in 1..Len(last'.sent) : last'.sent[i] = PacketDue(id)[1]
         /\ state' = state
         /\ tickTimer' = tickTimer ]_vars

\* The tick threw on LOSSY and the frame at the head of FAST is still queued.
C32_Skipped ==
  /\ last.op = "tick"
  /\ last.threw
  /\ tickTimer # None
  /\ sendChannels[CHANNEL_LOSSY].pendingMessages = <<>>
  /\ Len(sendChannels[CHANNEL_FAST].pendingMessages) = 1
  /\ sendChannels[CHANNEL_FAST].inFlight = <<>>

-----------------------------------------------------------------------------
(* An acknowledgment that came before its frame, and the one that follows it *)

\* handleAck(s) runs while s is in flight and acked holds 0 for s.
SecondAck ==
  /\ last'.op = "handleAck"
  /\ last'.start \in InFlightStarts(TheSend)
  /\ MapHas(TheSend.acked, last'.start)
  /\ TheSend.acked[last'.start] = 0

\* C34 as stated: the second call is ignored: the entry keeps length 0, the
\* start stays in inFlight and the frontier stays where it was.
C34_SecondAckIgnored ==
  [][ SecondAck =>
        /\ MapHas(TheSend'.acked, last'.start)
        /\ TheSend'.acked[last'.start] = 0
        /\ last'.start \in InFlightStarts(TheSend')
        /\ TheSend'.fullyConfirmed = TheSend.fullyConfirmed ]_vars

\* C34: the second call finds the frame in flight, so it removes the start
\* from inFlight and replaces the zero entry by the frame's length; the
\* frontier is then held back only by the frames before it that are still
\* unacknowledged.
C34_SecondAckCounts ==
  [][ SecondAck =>
        LET s     == last'.start
            entry == TheSend.inFlight[EntryIndex(TheSend.inFlight, s)]
        IN  /\ s \notin InFlightStarts(TheSend')
            /\ entry.len > 0
            /\ IF MapHas(TheSend'.acked, s)
                 THEN /\ TheSend'.acked[s] = entry.len
                      /\ TheSend'.fullyConfirmed = TheSend.fullyConfirmed
                 ELSE TheSend'.fullyConfirmed = addSeq(s, entry.len) ]_vars

\* The second frame was acknowledged before and again after its emission,
\* the first frame not at all.
C34_Witness ==
  /\ Len(delivered) >= 2
  /\ last.op = "handleAck"
  /\ last.early
  /\ last.start = delivered[2].start
  /\ delivered[1].start \in InFlightStarts(TheSend)
  /\ delivered[2].start \notin InFlightStarts(TheSend)
  /\ TheSend.acked[delivered[2].start] = Len(delivered[2].payload)

-----------------------------------------------------------------------------
(* The phase of a connection that is closing *)

PhaseRank(phase) ==
  CASE phase = "awaitingServer" -> 0
    [] phase = "connected"      -> 1
    [] phase = "closing"        -> 2
    [] phase = "closed"         -> 3

\* C35: the phase only moves forward through awaitingServer, connected,
\* closing, closed; in particular no datagram takes a closing connection back
\* to connected.
C35_PhaseOnlyForward ==
  [][ PhaseRank(state') >= PhaseRank(state) ]_vars

\* A long INIT arrived between close() and the completion of the DISCONNECT
\* send, and the phase is connected again.
C35_Revived ==
  /\ InitRan
  /\ last.before = "closing"
  /\ state = "connected"
  /\ callbacks # <<>>

ConnectedEvents ==
  SelectSeq(events, LAMBDA e : e = [type |-> "connected"])

\* C36: the connected event is emitted at most once, and the INIT ack is sent
\* at most once, by the handler that emits it.
C36_ConnectedOnce ==
  [][ /\ Len(ConnectedEvents') <= 1
      /\ ("sent" \in DOMAIN last'
            /\ \E i \in 1..Len(last'.sent) :
                 last'.sent[i] = <<CHANNEL_INIT>> \o connectionId)
         => ConnectedEvents = <<>> ]_vars

\* The second connected event, with the second INIT ack.
C36_Twice ==
  /\ Len(ConnectedEvents) = 2
  /\ InitRan
  /\ last.sent = << <<CHANNEL_INIT>> \o connectionId >>

-----------------------------------------------------------------------------
(* A burst of frames, ticks every 20 ms and a peer that never answers *)

MaxBurstQueued == 26

\* The application queues a burst before the first packet leaves; queued
\* keeps the frames, wire the packets getPacket has returned.
BurstQueue ==
  /\ Len(queued) < MaxBurstQueued
  /\ wire = {}
  /\ \E p \in ProtocolIds :
       /\ sendChannels' = [sendChannels EXCEPT
                             ![CHANNEL_FAST] = queue(@, p, Body(0))]
       /\ queued' = Append(queued, [protocolId |-> p, payload |-> Body(0)])
       /\ last' = [op |-> "queue"]
  /\ UNCHANGED <<connFields, envVars, receiveChannels, now, wire, passed,
                 delivered>>

\* The tick TICK_INTERVAL_MS after the previous one: flushSendQueues finds
\* work on the channel and calls getPacket(now).  The clock is relative as in
\* ResendTick; delivered keeps the fresh packets in the order of emission and
\* passed the parity of the number of ticks.
BurstTick ==
  /\ \E ch \in {Elapsed(TheSend, TICK_INTERVAL_MS)} :
       \E r \in {getPacket(ch, now)} :
         /\ hasWork(ch)
         /\ sendChannels' = [sendChannels EXCEPT
                               ![CHANNEL_FAST] = Counted(r.channel)]
         /\ wire' = wire \cup {[start |-> q.start, payload |-> q.payload] :
                                 q \in {r.packet[i] : i \in 1..Len(r.packet)}}
         /\ delivered' =
              IF r.packet # None /\ ~r.packet[1].resend
                THEN Append(delivered, [start   |-> r.packet[1].start,
                                        payload |-> r.packet[1].payload])
                ELSE delivered
         /\ last' = [op |-> "getPacket", packet |-> r.packet,
                     threw |-> r.threw]
  /\ passed' = {0} \ passed
  /\ UNCHANGED <<connFields, envVars, receiveChannels, now, queued>>

BurstNext == BurstQueue \/ BurstTick

SpecBurst == SendInit /\ [][BurstNext]_vars

\* The interval timer keeps firing.
FairSpecBurst == SpecBurst /\ WF_vars(BurstTick)

\* C37: with a tick every 20 ms and a resend timeout of 500 ms every frame
\* that waits in pendingMessages is eventually emitted by getPacket, however
\* many packets are in flight without acknowledgment.
C37_PendingEventuallyEmitted ==
  (Len(delivered) < Len(queued)) ~> (Len(delivered) = Len(queued))

\* Twenty-five packets are in flight, the twenty-sixth frame waits, and the
\* tick resends the oldest packet.
C37_Starved ==
  /\ Len(TheSend.inFlight) = RESEND_TIMEOUT_MS \div TICK_INTERVAL_MS
  /\ Len(TheSend.pendingMessages) = 1
  /\ last.op = "getPacket"
  /\ last.packet # None
  /\ last.packet[1].resend
  /\ last.packet[1].start = delivered[1].start
  /\ TheSend.inFlight[1].retries = MaxRetries

-----------------------------------------------------------------------------
(* Every confirmation from its enqueueing to the wire *)

\* The (channel, start) pairs a CONFIRMATION datagram carries, as the peer's
\* handleConfirmation reads them.
ConfirmationPairs(datagram) ==
  [i \in 1..((Len(datagram) - 1) \div 7) |->
     [channelId |-> datagram[7 * (i - 1) + 2],
      start     |-> readInt32BE(datagram, 7 * (i - 1) + 4)]]

RECURSIVE AllPairs(_)
AllPairs(datagrams) ==
  IF datagrams = <<>> THEN <<>>
  ELSE ConfirmationPairs(Head(datagrams)) \o AllPairs(Tail(datagrams))

\* The interval timer fires; delivered keeps the pairs of every CONFIRMATION
\* datagram handed to the socket so far, in the order of sending.
ConfirmLogTick ==
  /\ tickTimer # None
  /\ \E c \in {tick(This)} :
       /\ Handled("tick", <<>>, c)
       /\ delivered' = delivered \o AllPairs(Confirmations(c.out))
  /\ UNCHANGED <<now, queued, wire, passed>>

ConfirmLogNext ==
  \/ Start
  \/ ConfirmLogTick
  \/ ConfirmMessage
  \/ ConfirmClock

SpecConfirmLog == Init /\ [][ConfirmLogNext]_vars

\* The confirmations enqueued so far: one for each datagram of the burst.
Enqueued ==
  [k \in 1..Cardinality(passed) |->
     [channelId |-> BurstDatagram(k)[1],
      start     |-> readInt32BE(BurstDatagram(k), 1)]]

StillPending ==
  [i \in 1..Len(pendingConfirmations) |->
     [channelId |-> pendingConfirmations[i].channelId,
      start     |-> pendingConfirmations[i].start]]

\* What was sent, followed by what is pending, is what was enqueued.
C38_State == delivered \o StillPending = Enqueued

\* A tick of an open connection takes CONFIRMATION_BATCH_SIZE confirmations,
\* or all there are, from the front of the queue.
C38_Tick ==
  (last'.op = "tick" /\ state' \notin {"closing", "closed"}) =>
    pendingConfirmations' =
      SubSeq(pendingConfirmations,
             Min(CONFIRMATION_BATCH_SIZE, Len(pendingConfirmations)) + 1,
             Len(pendingConfirmations))

\* C38: every confirmation enqueued for a received packet is sent in exactly
\* one CONFIRMATION datagram, confirmations leave in the order of enqueueing,
\* and each tick takes 16 of them from the front of the queue, so that k
\* pending confirmations are gone after ceil(k / 16) ticks.
C38_NoConfirmationLostOrRepeated == []C38_State /\ [][C38_Tick]_vars

\* Twenty confirmations were enqueued and left in two ticks, 16 and 4.
C38_Witness ==
  /\ Cardinality(passed) = MaxBurst
  /\ Len(delivered) = MaxBurst
  /\ pendingConfirmations = <<>>
  /\ last.op = "tick"
  /\ Len(Confirmations(last.sent)) = 1
  /\ Len(ConfirmationPairs(Confirmations(last.sent)[1])) = MaxBurst - CONFIRMATION_BATCH_SIZE

-----------------------------------------------------------------------------
(* The keys of acked *)

\* C39: every key of acked lies in [fullyConfirmed, nextIndex): an
\* acknowledgment repeated for a start that is already confirmed adds nothing
\* to acked.
C39_AckedWithinWindow ==
  \A key \in DOMAIN TheSend.acked :
    /\ ~seqLessThan(key, TheSend.fullyConfirmed)
    /\ seqLessThan(key, TheSend.nextIndex)

\* Every frame emitted was acknowledged, the first twice; acked keeps the
\* start of the first, behind the frontier.
C39_Stale ==
  /\ Len(delivered) >= 1
  /\ passed = EmittedStarts
  /\ TheSend.inFlight = <<>>
  /\ last.op = "handleAck"
  /\ last.start = delivered[1].start
  /\ ~last.early
  /\ DOMAIN TheSend.acked = {delivered[1].start}
  /\ seqLessThan(delivered[1].start, TheSend.fullyConfirmed)

-----------------------------------------------------------------------------
(* The frame getPacket refuses, and those queued behind it *)

\* getPacket threw: the frame at the head of the queue exceeded the
\* allowance and is all that changed.
C40_Refused ==
  (last'.op = "getPacket" /\ last'.threw) =>
    /\ TheSend.pendingMessages # <<>>
    /\ Len(Head(TheSend.pendingMessages)) > MTU - 5
    /\ TheSend' = [TheSend EXCEPT !.pendingMessages = Tail(@)]

\* getPacket returned a fresh packet: the head of the queue, at nextIndex.
C40_Fresh ==
  (last'.op = "getPacket" /\ last'.packet # None /\ ~last'.packet[1].resend) =>
    /\ TheSend.pendingMessages # <<>>
    /\ last'.packet[1].payload = Head(TheSend.pendingMessages)
    /\ last'.packet[1].start = TheSend.nextIndex
    /\ TheSend'.pendingMessages = Tail(TheSend.pendingMessages)

\* C40: when getPacket fails on a frame beyond MTU - 5, nextIndex,
\* fullyConfirmed, inFlight and acked are unchanged and only that frame has
\* left pendingMessages; the frames behind it are emitted by later calls in
\* queue order, each starting at the nextIndex the call finds.
C40_RefusedFrameOnly == [][C40_Refused /\ C40_Fresh]_vars

\* The first frame was refused, and the two behind it were emitted one after
\* the other from the initial sequence.
C40_Witness ==
  /\ Len(queued) = 3
  /\ Len(queued[1].payload) = MTU - 5
  /\ Len(delivered) = 2
  /\ delivered[1].start = TheSend.initialSequence
  /\ delivered[2].start = addSeq(delivered[1].start, Len(delivered[1].payload))
  /\ last.op = "getPacket"
  /\ last.packet # None
  /\ last.packet[1].start = delivered[2].start
  /\ ~last.packet[1].resend

=============================================================================
